---- MODULE Spec2Model ----
(***************************************************************************)
(* eth-on-bzz: a mutable key-value store (bzzdb) on top of Swarm feeds.    *)
(*                                                                         *)
(* The model covers                                                        *)
(*   - the byte layouts and reference derivations of pkg/client/helpers.go,*)
(*   - the mock Bee node of pkg/client/mock/mock.go (stamps, data, feeds), *)
(*     with the transport failures of pkg/client/impl.go as injected       *)
(*     faults,                                                             *)
(*   - the postage cache of pkg/postage/postage.go,                        *)
(*   - the FeedIndexer (AcquireNext / Release / Current) step by step,     *)
(*     with its sync.Mutex as Go defines it: not owned by a goroutine, and *)
(*     fatal when unlocked while not locked,                               *)
(*   - bzzdb.Put / Get / Has / Delete and the upload goroutine.            *)
(*                                                                         *)
(* Byte strings are sequences of fields <<tag, content>>; every field has  *)
(* a size in bytes, so that slicing (RawDataFromSOCResp, PayloadStripTime) *)
(* is computed on sizes.  Keccak is a perfect hash: a hash is the term     *)
(* <<"hash", input>> of size 32.                                           *)
(***************************************************************************)
EXTENDS Integers, Sequences, FiniteSets, TLC

(***************************************************************************)
(* Bounds of the model.                                                    *)
(***************************************************************************)
\* calls started in one behaviour: of the store, of the indexer (all callers
\* together; in the shorter behaviours of SpecIdxFew), of the indexer by one
\* caller
MaxOps == 3
MaxIdxOps == 4
MaxFewOps == 3
MaxSeqOps == 5
\* CurrentBatchID calls started in one behaviour, tickets a node lists at first
MaxBatchOps == 3
MaxListing == 2
\* calls made on the client in one behaviour, largest index of a feed update
MaxClientOps == 4
\* calls made by the goroutines of concurrent Puts in one behaviour
MaxPutOps == 2
MaxFeedIndex == 1
\* updates a feed holds when a new FeedIndexer is created over its node
MaxUpdates == 2
\* transport failures injected in one behaviour
MaxFaults == 1
\* largest index a direct Release call may name
MaxRelease == 1

\* concurrent callers (goroutines calling into one orchestrator / indexer)
Procs == {1, 2}
\* application keys (one byte each)
Keys == {1, 2}
\* values written by Put (non-nil byte strings); the nil slice is Delete's
Values == {<<>>, <<7>>}

(***************************************************************************)
(* Program constants.                                                      *)
(***************************************************************************)
HashSize == 32
SocSignatureSize == 65
SpanSize == 8
TimeSize == 8
chunkSize == 4096
bucketDepth == 16
minDepth == bucketDepth + 1
maxDepth == 255
DefaultDepth == 22
DefaultAmount == 10000000
\* the owner address derived from the private key at construction
Owner == 1

\* a nil *Index / a nil *feedIndexData
NilIdx == -1
NilPtr == 0

(***************************************************************************)
(* Byte strings.                                                           *)
(***************************************************************************)
FieldSize(f) ==
  CASE f[1] = "raw"   -> Len(f[2])
    [] f[1] = "hash"  -> HashSize
    [] f[1] = "zeros" -> f[2]
    [] f[1] = "u64"   -> 8
    [] f[1] = "addr"  -> 20
    [] f[1] = "str"   -> f[2][2]
    [] OTHER          -> 0

RECURSIVE ByteLen(_)
ByteLen(b) == IF b = <<>> THEN 0 ELSE FieldSize(Head(b)) + ByteLen(Tail(b))

\* a user's byte string v (a sequence of byte values) as fields
Raw(v) == IF v = <<>> THEN <<>> ELSE << <<"raw", v>> >>

Zeros(n) == IF n = 0 THEN <<>> ELSE << <<"zeros", n>> >>

\* b[n:]: the byte string without its first n bytes
RECURSIVE DropBytes(_, _)
DropBytes(b, n) ==
  IF n = 0 THEN b
  ELSE IF b = <<>> THEN << <<"str", <<"out-of-range", 0>> >> >>
  ELSE LET f == Head(b)
           s == FieldSize(f)
       IN IF s <= n THEN DropBytes(Tail(b), n - s)
          ELSE IF f[1] = "zeros" THEN <<  <<"zeros", s - n>> >> \o Tail(b)
          ELSE IF f[1] = "raw" THEN << <<"raw", SubSeq(f[2], n + 1, s)>> >> \o Tail(b)
          ELSE << <<"str", <<"split", s - n>> >> >> \o Tail(b)

\* crypto.LegacyKeccak256 as a perfect hash
LegacyKeccak256(b) == << <<"hash", b>> >>

\* binary.BigEndian.PutUint64
BigEndian64(i) == << <<"u64", i>> >>

keyPrefix == << <<"str", <<"bzzdb-", 6>> >> >>

zeroSocData == Zeros(HashSize)

KeyBytes(k) == Raw(<<k>>)

(***************************************************************************)
(* Reference derivation and payload layout.                                *)
(***************************************************************************)
\* bzzdb.makeTopic: Keccak(keyPrefix || key)
makeTopic(k) == LegacyKeccak256(keyPrefix \o KeyBytes(k))

\* client.FeedID: Keccak(topic || bigEndian64(index))
FeedID(topic, index) == LegacyKeccak256(topic \o BigEndian64(index))

\* FeedUpdateReference that hashes the owner in front of the id
FeedUpdateReferenceOwnerFirst(owner, topic, index) ==
  LegacyKeccak256(<< <<"addr", owner>> >> \o FeedID(topic, index))

\* client.FeedUpdateReference: Keccak(FeedID(topic, index) || owner)
FeedUpdateReference(owner, topic, index) ==
  LegacyKeccak256(FeedID(topic, index) \o << <<"addr", owner>> >>)

\* PayloadWithTime that writes the time behind the payload
PayloadWithTimeBehind(payload, t) == payload \o BigEndian64(t)

\* client.PayloadWithTime: bigEndian64(t.Unix()) || payload
PayloadWithTime(payload, t) == BigEndian64(t) \o payload

\* client.PayloadStripTime: the payload without its 8-byte timestamp
PayloadStripTime(payload) == DropBytes(payload, TimeSize)

\* RawDataFromSOCResp that leaves the signature in front of the data
RawDataFromSOCRespKeepsSignature(resp) == DropBytes(resp, SpanSize + HashSize)

\* client.RawDataFromSOCResp: resp[SpanSize+HashSize+SocSignatureSize:]
RawDataFromSOCResp(resp) == DropBytes(resp, SpanSize + HashSize + SocSignatureSize)

\* client.SignSocData: the data of the content-addressed chunk that wraps the
\* payload, span (8 bytes, the payload's length) || payload
SignSocData(id, payload) == << <<"u64", ByteLen(payload)>> >> \o payload

(***************************************************************************)
(* The Bee node (mock.mockClient).  A map is a function with a finite      *)
(* domain; an error is a string, "" for nil.                               *)
(***************************************************************************)
Has_(m, k) == k \in DOMAIN m

MapPut(m, k, v) == [x \in DOMAIN m \cup {k} |-> IF x = k THEN v ELSE m[x]]

ErrNone == ""
\* client.ErrNotFound
ErrNotFound == "client: not found"
\* bzzdb.errBzzDBNotFound
errBzzDBNotFound == "bzzdb: not found"
errInvalidStamp == "invalid stamp"
errStampUsageExceeded == "stamp usage exceeded"
errBuyStampInvalidAmount == "amount must be positive non zero value"
errBuyStampInvalidDepth == "depth is not in acceptable range"
errNoUsableBatch == "no usable batch found"
\* an error of the transport (client.doRequest failed)
ErrTransport == "request failed"
\* "failed getting latest feed index: %w"
ErrFeedIndex == "failed getting latest feed index"

\* a count of the whole chunks only
RequiredChunksFloor(size) == size \div chunkSize

\* int(math.Ceil(float64(size) / chunkSize))
RequiredChunks(size) == (size + chunkSize - 1) \div chunkSize

\* 1 << (depth - bucketDepth) on a 64-bit int; shifts of 31..62 bits are
\* kept symbolic as 2^30 (more chunks than any behaviour of the model uses)
MaxChunks(depth) ==
  LET s == depth - bucketDepth
  IN IF s >= 64 THEN 0
     ELSE IF s = 63 THEN 0 - 2^30
     ELSE IF s > 30 THEN 2^30
     ELSE 2^s

\* stampData.incUsage: the new usage, or -1 when the capacity is exceeded
incUsage(st, size) ==
  IF st.usage + RequiredChunks(size) > MaxChunks(st.depth)
  THEN -1
  ELSE st.usage + RequiredChunks(size)

\* mockClient.upload: [err, addr, stamps, data]
upload(sts, dat, addr, bytes, batch) ==
  IF ~Has_(sts, batch)
  THEN [err |-> errInvalidStamp, addr |-> <<>>, stamps |-> sts, data |-> dat]
  ELSE IF incUsage(sts[batch], ByteLen(bytes)) < 0
  THEN [err |-> errStampUsageExceeded, addr |-> <<>>, stamps |-> sts, data |-> dat]
  ELSE [err |-> ErrNone, addr |-> addr,
        stamps |-> [sts EXCEPT ![batch].usage = incUsage(sts[batch], ByteLen(bytes))],
        data |-> MapPut(dat, addr, bytes)]

\* mock.newCacAddress
newCacAddress(bytes) == LegacyKeccak256(bytes)

\* mock.newSocAddresser
newSocAddresser(owner, socID) == LegacyKeccak256(socID \o << <<"addr", owner>> >>)

\* mock.makeSOCData: a zeroed header (id, signature) in front of the data
makeSOCData(bytes) == Zeros(HashSize + SocSignatureSize) \o bytes

\* mock.feedID: the key of the feeds map
feedID(owner, socID) == <<owner, socID>>

\* mockClient.FeedIndexLatest: the number of consecutive updates from index 0
RECURSIVE FeedCount(_, _, _, _)
FeedCount(fds, owner, topic, i) ==
  IF Has_(fds, feedID(owner, FeedID(topic, i)))
  THEN FeedCount(fds, owner, topic, i + 1)
  ELSE i

\* FeedIndexLatest that reports the number of updates as the current index
FeedIndexLatestOneTooMany(fds, owner, topic) ==
  LET count == FeedCount(fds, owner, topic, 0)
  IN IF count = 0
     THEN [Current |-> 0, Next |-> 0]
     ELSE [Current |-> count, Next |-> count + 1]

FeedIndexLatest(fds, owner, topic) ==
  LET count == FeedCount(fds, owner, topic, 0)
  IN IF count = 0
     THEN [Current |-> 0, Next |-> 0]
     ELSE [Current |-> count - 1, Next |-> count]

\* mockClient.Stamps: every stamp is listed Usable, and Exists is left false
Stamps(sts) ==
  [b \in DOMAIN sts |-> [BatchID |-> b, Usable |-> TRUE, Exists |-> FALSE]]

\* postage.fetchFirstUsableStamp over a listing, in listing order (the mock
\* lists a Go map, in any order): the set of batches it may return
FirstUsable(listing) ==
  {b \in DOMAIN listing : listing[b].Usable /\ listing[b].Exists}

fetchFirstUsableStampIgnoresExists(resp) ==
  LET hits == {i \in DOMAIN resp : resp[i].Usable}
  IN IF hits = {}
     THEN [batch |-> 0, err |-> errNoUsableBatch]
     ELSE [batch |-> resp[CHOOSE i \in hits : \A j \in hits : i <= j].BatchID,
           err |-> ErrNone]

\* postage.fetchFirstUsableStamp over the tickets a node lists, a sequence:
\* the first one reported both usable and existing, else errNoUsableBatch
fetchFirstUsableStamp(resp) ==
  LET hits == {i \in DOMAIN resp : resp[i].Usable /\ resp[i].Exists}
  IN IF hits = {}
     THEN [batch |-> 0, err |-> errNoUsableBatch]
     ELSE [batch |-> resp[CHOOSE i \in hits : \A j \in hits : i <= j].BatchID,
           err |-> ErrNone]

\* testing.MustNewID: a batch id no stamp has yet
NewBatchID(sts) == Cardinality(DOMAIN sts) + 1

\* client.BatchID(""): no batch
NoBatch == 0

(***************************************************************************)
(* State.                                                                  *)
(***************************************************************************)
VARIABLES
  \* FeedIndexer: the mutex, the index map (topic -> pointer) and the
  \* feedIndexData objects the pointers refer to
  lock, indexMap, entries,
  \* postage: the cached batch id
  batchID,
  \* the node: mockClient.stamps, .data, .feeds, and the tickets a node lists
  \* that were not bought through this client (none on a new mock node)
  stamps, data, feeds, listed,
  \* the callers: the operation each runs, each thread's position and locals,
  \* the channel uploadAsync returns, the result of the last operation
  op, pc, loc, respC, res,
  \* the whole program: "" while it runs, else the fatal error that ended it
  crashed,
  \* bookkeeping: operations and faults still allowed, the orchestrator
  \* instance (New) in use, the calls made so far (released: per key, the
  \* indices the returned Release calls named, NilIdx standing for an index
  \* no AcquireNext had returned yet)
  opsLeft, faultsLeft, epoch, acquired, published, lastWrite, lastOk, released,
  \* the last call made on the node's client directly, with what it returned
  last

vars == <<lock, indexMap, entries, batchID, stamps, data, feeds, listed,
          op, pc, loc, respC, res, crashed,
          opsLeft, faultsLeft, epoch, acquired, published, lastWrite, lastOk,
          released, last>>

indexerVars == <<lock, indexMap, entries>>
nodeVars == <<stamps, data, feeds, listed>>
ghostVars == <<acquired, published, lastWrite, lastOk, released, last>>

\* the upload goroutine of caller p is thread -p
Go(p) == 0 - p
Threads == Procs \cup {Go(p) : p \in Procs}

EmptyMap == [x \in {} |-> 0]

NoResp == [Current |-> 0, Next |-> 0]

\* (got, rel: whether an AcquireNext of this call has returned an index, and
\* how many Release calls of this call have returned)
LocInit ==
  [sub |-> "", ret |-> "", topic |-> <<>>, idata |-> NilPtr, index |-> 0,
   resp |-> NoResp, err |-> ErrNone, panic |-> FALSE, batch |-> NoBatch,
   cur |-> 0, exists |-> FALSE, bytes |-> <<>>, got |-> FALSE, rel |-> 0]

NoOp == [kind |-> "", key |-> 0, nil |-> FALSE, val |-> <<>>]

\* what an operation returned: err, and by kind the bytes (Get), the flag
\* (Has, with the error of its Get in gerr), the index (AcquireNext, Current)
NoRes ==
  [kind |-> "", key |-> 0, err |-> ErrNone, gerr |-> ErrNone, out |-> <<>>,
   found |-> FALSE, index |-> 0, exists |-> FALSE, epoch |-> 0]

\* no call made on the client yet
NoCall ==
  [call |-> "", amount |-> 0, depth |-> 0, key |-> 0, index |-> 0,
   bytes |-> <<>>, batch |-> 0, addr |-> <<>>, err |-> "", out |-> <<>>,
   resp |-> NoResp, made |-> FALSE]

EmptyChan == [full |-> FALSE, ref |-> <<>>, err |-> ErrNone]

\* the last Put/Delete of a key that returned: its value, whether it
\* succeeded, the instance it ran on, the instance of the key's first write,
\* and whether a Put/Delete of the key has returned an error
NoWrite == [set |-> FALSE, kind |-> "", nil |-> FALSE, val |-> <<>>, ok |-> FALSE,
            epoch |-> 0, first |-> 0, failed |-> FALSE]

\* how many calls returned (published at) each <<key, index>>
Count(bag, x) == IF x \in DOMAIN bag THEN bag[x] ELSE 0
BagAdd(bag, x) == MapPut(bag, x, Count(bag, x) + 1)

\* bzzdb.New over a fresh node, with the calls the callers may make and the
\* ticket listings the node may start with
\* the state after construction, over a node that holds the tickets, chunks
\* and feed entries of the record node, the ticket cache holding cached
InitCached(ops, listings, node, cached) ==
  /\ lock = FALSE
  /\ indexMap = EmptyMap
  /\ entries = <<>>
  /\ batchID = cached
  /\ stamps = node.stamps
  /\ data = node.data
  /\ feeds = node.feeds
  /\ listed \in listings
  /\ op = [p \in Procs |-> NoOp]
  /\ pc = [t \in Threads |-> "idle"]
  /\ loc = [t \in Threads |-> LocInit]
  /\ respC = [p \in Procs |-> EmptyChan]
  /\ res = [p \in Procs |-> NoRes]
  /\ crashed = ""
  /\ opsLeft = ops
  /\ faultsLeft = MaxFaults
  /\ epoch = 1
  /\ acquired = EmptyMap
  /\ published = EmptyMap
  /\ lastWrite = [k \in Keys |-> NoWrite]
  /\ lastOk = [k \in Keys |-> NoWrite]
  /\ released = [k \in Keys |-> {}]
  /\ last = NoCall

\* ... with an empty ticket cache (postage.New)
InitOver(ops, listings, node) == InitCached(ops, listings, node, NoBatch)

\* a node created by mock.NewClient
EmptyNode == [stamps |-> EmptyMap, data |-> EmptyMap, feeds |-> EmptyMap]

InitNode(ops, listings) == InitOver(ops, listings, EmptyNode)

\* ... a mock node, which lists the tickets bought through it only
InitWith(ops) == InitNode(ops, {<<>>})

Init == InitWith(MaxOps)

InitIdx == InitWith(MaxIdxOps)

Running == crashed = ""

MapGetMiss(topic) == NilPtr

\* the feedIndexData the index map holds for a topic, NilPtr when unseen
MapGet(topic) == IF Has_(indexMap, topic) THEN indexMap[topic] ELSE NilPtr

\* a transport failure may be injected
CanFail == faultsLeft > 0

(***************************************************************************)
(* sync.Mutex.  Lock waits until the mutex is free.  Unlock frees it       *)
(* whoever locked it, and is a fatal error ("sync: unlock of unlocked      *)
(* mutex") when it is free.                                                *)
(***************************************************************************)
FatalUnlock == "fatal error: sync: unlock of unlocked mutex"
PanicNil == "panic: nil pointer dereference"
FatalMapRace == "fatal error: concurrent map read and map write"

\* the mutex after Unlock, or the fatal error
UnlockOutcome(held) == IF held THEN "" ELSE FatalUnlock

(***************************************************************************)
(* FeedIndexer.  AcquireNext and Current share the priming path            *)
(* (lock, lookup, unlock, FeedIndexLatest, lock, check, install); every    *)
(* access to the shared map and to a feedIndexData is a step of its own.   *)
(***************************************************************************)
\* newFeedIndexData that takes the response (0, 0) for a feed with one update
newFeedIndexDataAlwaysSet(resp) == [current |-> resp.Current, next |-> resp.Next]

\* newFeedIndexData that starts handing out at the node's current index
newFeedIndexDataNextIsCurrent(resp) ==
  IF resp.Current = 0 /\ resp.Next = 0
  THEN [current |-> NilIdx, next |-> 0]
  ELSE [current |-> resp.Current, next |-> resp.Current]

\* newFeedIndexData
newFeedIndexData(resp) ==
  IF resp.Current = 0 /\ resp.Next = 0
  THEN [current |-> NilIdx, next |-> 0]
  ELSE [current |-> resp.Current, next |-> resp.Next]

\* i.lock.Lock() at the head of AcquireNext, Release and Current
IdxLock(t) ==
  /\ Running /\ pc[t] = "lock" /\ ~lock
  /\ lock' = TRUE
  /\ pc' = [pc EXCEPT ![t] = "lookup"]
  /\ UNCHANGED <<indexMap, entries, batchID, nodeVars, op, loc, respC, res, crashed,
                 opsLeft, faultsLeft, epoch, ghostVars>>

\* where a call goes once it holds a feedIndexData pointer
Body(sub) ==
  CASE sub = "AcquireNext" -> "take"
    [] sub = "Current"     -> "read"
    [] OTHER               -> "cmp"

\* indexData, ok := i.indexMap[key]
IdxLookup(t) ==
  /\ Running /\ pc[t] = "lookup"
  /\ loc' = [loc EXCEPT ![t].idata = MapGet(loc[t].topic)]
  /\ pc' = [pc EXCEPT ![t] =
       IF MapGet(loc[t].topic) # NilPtr THEN Body(loc[t].sub)
       ELSE IF loc[t].sub = "Release" THEN "defer"
       ELSE "unlock1"]
  /\ UNCHANGED <<indexerVars, batchID, nodeVars, op, respC, res, crashed,
                 opsLeft, faultsLeft, epoch, ghostVars>>

IdxUnlockForFetchKeepsLock(t) ==
  /\ Running /\ pc[t] = "unlock1"
  /\ pc' = [pc EXCEPT ![t] = "fetch"]
  /\ UNCHANGED <<indexerVars, batchID, nodeVars, op, loc, respC, res, crashed,
                 opsLeft, faultsLeft, epoch, ghostVars>>

\* if !ok { i.lock.Unlock() ...
IdxUnlockForFetch(t) ==
  /\ Running /\ pc[t] = "unlock1"
  /\ crashed' = UnlockOutcome(lock)
  /\ lock' = FALSE
  /\ pc' = IF lock THEN [pc EXCEPT ![t] = "fetch"] ELSE pc
  /\ UNCHANGED <<indexMap, entries, batchID, nodeVars, op, loc, respC, res,
                 opsLeft, faultsLeft, epoch, ghostVars>>

\* feedIndexResp, err := i.indexFetcher.FeedIndexLatest(ctx, i.owner, topic)
IdxFetch(t) ==
  /\ Running /\ pc[t] = "fetch"
  /\ loc' = [loc EXCEPT ![t].resp = FeedIndexLatest(feeds, Owner, loc[t].topic)]
  /\ pc' = [pc EXCEPT ![t] = "relock"]
  /\ UNCHANGED <<indexerVars, batchID, nodeVars, op, respC, res, crashed,
                 opsLeft, faultsLeft, epoch, ghostVars>>

\* ... if err != nil { return 0, fmt.Errorf(...) }: the deferred Unlock follows
IdxFetchFail(t) ==
  /\ Running /\ pc[t] = "fetch" /\ CanFail
  /\ faultsLeft' = faultsLeft - 1
  /\ loc' = [loc EXCEPT ![t].err = ErrFeedIndex]
  /\ pc' = [pc EXCEPT ![t] = "defer"]
  /\ UNCHANGED <<indexerVars, batchID, nodeVars, op, respC, res, crashed,
                 opsLeft, epoch, ghostVars>>

\* i.lock.Lock() after the query
IdxRelock(t) ==
  /\ Running /\ pc[t] = "relock" /\ ~lock
  /\ lock' = TRUE
  /\ pc' = [pc EXCEPT ![t] = "check"]
  /\ UNCHANGED <<indexMap, entries, batchID, nodeVars, op, loc, respC, res, crashed,
                 opsLeft, faultsLeft, epoch, ghostVars>>

\* if _, ok := i.indexMap[key]; !ok {: when the entry is there, indexData keeps
\* the nil of the first lookup
IdxCheck(t) ==
  /\ Running /\ pc[t] = "check"
  /\ pc' = [pc EXCEPT ![t] =
       IF MapGet(loc[t].topic) = NilPtr THEN "install" ELSE Body(loc[t].sub)]
  /\ UNCHANGED <<indexerVars, batchID, nodeVars, op, loc, respC, res, crashed,
                 opsLeft, faultsLeft, epoch, ghostVars>>

\* indexData = newFeedIndexData(feedIndexResp); i.indexMap[key] = indexData
IdxInstall(t) ==
  /\ Running /\ pc[t] = "install"
  /\ entries' = Append(entries, newFeedIndexData(loc[t].resp))
  /\ indexMap' = MapPut(indexMap, loc[t].topic, Len(entries) + 1)
  /\ loc' = [loc EXCEPT ![t].idata = Len(entries) + 1]
  /\ pc' = [pc EXCEPT ![t] = Body(loc[t].sub)]
  /\ UNCHANGED <<lock, batchID, nodeVars, op, respC, res, crashed,
                 opsLeft, faultsLeft, epoch, ghostVars>>

\* index := indexData.next (a nil indexData panics)
AcquireTake(t) ==
  /\ Running /\ pc[t] = "take"
  /\ IF loc[t].idata = NilPtr
     THEN /\ loc' = [loc EXCEPT ![t].panic = TRUE]
          /\ pc' = [pc EXCEPT ![t] = "defer"]
     ELSE /\ loc' = [loc EXCEPT ![t].index = entries[loc[t].idata].next]
          /\ pc' = [pc EXCEPT ![t] = "incr"]
  /\ UNCHANGED <<indexerVars, batchID, nodeVars, op, respC, res, crashed,
                 opsLeft, faultsLeft, epoch, ghostVars>>

\* indexData.next++: one more than the value read for index or, when another
\* caller wrote in between, than the value then stored
IncrOutcomes(index, stored) == {index + 1, stored + 1}

AcquireIncr(t) ==
  /\ Running /\ pc[t] = "incr"
  /\ \E n \in IncrOutcomes(loc[t].index, entries[loc[t].idata].next) :
       entries' = [entries EXCEPT ![loc[t].idata].next = n]
  /\ pc' = [pc EXCEPT ![t] = "defer"]
  /\ UNCHANGED <<lock, indexMap, batchID, nodeVars, op, loc, respC, res, crashed,
                 opsLeft, faultsLeft, epoch, ghostVars>>

ReleaseAdvancesAlways(current, index) == TRUE

\* Release that takes every index other than the current one
ReleaseAdvancesOnOther(current, index) == current = NilIdx \/ index # current

\* Release that takes the lower index
ReleaseAdvancesOnLower(current, index) == current = NilIdx \/ index < current

\* Release: if indexData.current == nil || index > *indexData.current
ReleaseAdvances(current, index) == current = NilIdx \/ index > current

ReleaseCompare(t) ==
  /\ Running /\ pc[t] = "cmp"
  /\ pc' = [pc EXCEPT ![t] =
       IF ReleaseAdvances(entries[loc[t].idata].current, loc[t].index)
       THEN "set" ELSE "defer"]
  /\ UNCHANGED <<indexerVars, batchID, nodeVars, op, loc, respC, res, crashed,
                 opsLeft, faultsLeft, epoch, ghostVars>>

\* indexData.current = &index
ReleaseSet(t) ==
  /\ Running /\ pc[t] = "set"
  /\ entries' = [entries EXCEPT ![loc[t].idata].current = loc[t].index]
  /\ pc' = [pc EXCEPT ![t] = "defer"]
  /\ UNCHANGED <<lock, indexMap, batchID, nodeVars, op, loc, respC, res, crashed,
                 opsLeft, faultsLeft, epoch, ghostVars>>

\* Current: if indexData.current == nil { return 0, false, nil };
\* return *indexData.current, true, nil (a nil indexData panics)
CurrentRead(t) ==
  /\ Running /\ pc[t] = "read"
  /\ IF loc[t].idata = NilPtr
     THEN loc' = [loc EXCEPT ![t].panic = TRUE]
     ELSE LET c == entries[loc[t].idata].current
          IN loc' = [loc EXCEPT ![t].cur = IF c = NilIdx THEN 0 ELSE c,
                                ![t].exists = c # NilIdx]
  /\ pc' = [pc EXCEPT ![t] = "defer"]
  /\ UNCHANGED <<indexerVars, batchID, nodeVars, op, respC, res, crashed,
                 opsLeft, faultsLeft, epoch, ghostVars>>

\* defer i.lock.Unlock(), then the return to the caller; a panic goes on
\* unwinding after it and, recovered nowhere, ends the program
IdxDeferredUnlock(t) ==
  /\ Running /\ pc[t] = "defer"
  /\ crashed' = IF ~lock THEN FatalUnlock
                ELSE IF loc[t].panic THEN PanicNil ELSE ""
  /\ lock' = FALSE
  /\ pc' = IF lock /\ ~loc[t].panic THEN [pc EXCEPT ![t] = loc[t].ret] ELSE pc
  /\ acquired' =
       IF lock /\ ~loc[t].panic /\ loc[t].sub = "AcquireNext" /\ loc[t].err = ErrNone
       THEN BagAdd(acquired, <<op[t].key, loc[t].index>>)
       ELSE acquired
  /\ released' =
       IF lock /\ ~loc[t].panic /\ loc[t].sub = "Release"
       THEN LET k == op[t].key
            IN [released EXCEPT ![k] = @ \cup
                  {IF Count(acquired, <<k, loc[t].index>>) > 0
                   THEN loc[t].index ELSE NilIdx}]
       ELSE released
  /\ loc' =
       IF lock /\ ~loc[t].panic
       THEN [loc EXCEPT
               ![t].got = @ \/ (loc[t].sub = "AcquireNext" /\ loc[t].err = ErrNone),
               ![t].rel = IF loc[t].sub = "Release" THEN @ + 1 ELSE @]
       ELSE loc
  /\ UNCHANGED <<indexMap, entries, batchID, nodeVars, op, respC, res,
                 opsLeft, faultsLeft, epoch, published, lastWrite, lastOk, last>>

\* the runtime's check of unsynchronised map access: a write of the index map
\* concurrent with another access of it ends the program
MapRaceFatal ==
  /\ Running
  /\ \E t \in Procs, u \in Procs :
       /\ t # u
       /\ pc[t] = "install"
       /\ pc[u] \in {"lookup", "check", "install"}
  /\ crashed' = FatalMapRace
  /\ UNCHANGED <<indexerVars, batchID, nodeVars, op, pc, loc, respC, res,
                 opsLeft, faultsLeft, epoch, ghostVars>>

(***************************************************************************)
(* postage.CurrentBatchID, run by a caller or by its upload goroutine.     *)
(***************************************************************************)
PostageReadServesEmptyCache(t) ==
  /\ Running /\ pc[t] = "pb_read"
  /\ loc' = [loc EXCEPT ![t].batch = batchID]
  /\ pc' = [pc EXCEPT ![t] = loc[t].ret]
  /\ UNCHANGED <<indexerVars, batchID, nodeVars, op, respC, res, crashed,
                 opsLeft, faultsLeft, epoch, ghostVars>>

\* p.lock.Lock(); batchID := p.batchID; p.lock.Unlock(); if batchID != "" ...
PostageRead(t) ==
  /\ Running /\ pc[t] = "pb_read"
  /\ IF batchID # NoBatch
     THEN /\ loc' = [loc EXCEPT ![t].batch = batchID]
          /\ pc' = [pc EXCEPT ![t] = loc[t].ret]
     ELSE /\ pc' = [pc EXCEPT ![t] = "pb_stamps"]
          /\ UNCHANGED loc
  /\ UNCHANGED <<indexerVars, batchID, nodeVars, op, respC, res, crashed,
                 opsLeft, faultsLeft, epoch, ghostVars>>

\* batchID, err := p.fetchFirstUsableStamp(ctx): the node lists the tickets
\* it held from the start, then those bought since (as the mock lists them)
PostageStamps(t) ==
  /\ Running /\ pc[t] = "pb_stamps"
  /\ LET first == fetchFirstUsableStamp(listed)
         usable == IF first.err = ErrNone THEN {first.batch}
                   ELSE FirstUsable(Stamps(stamps))
     IN IF usable = {}
        THEN /\ pc' = [pc EXCEPT ![t] = "pb_buy"]
             /\ UNCHANGED loc
        ELSE /\ \E b \in usable : loc' = [loc EXCEPT ![t].batch = b]
             /\ pc' = [pc EXCEPT ![t] = "pb_store"]
  /\ UNCHANGED <<indexerVars, batchID, nodeVars, op, respC, res, crashed,
                 opsLeft, faultsLeft, epoch, ghostVars>>

\* the Stamps request fails: if err != nil { resp, err := p.beeCli.BuyStamp(...
PostageStampsFail(t) ==
  /\ Running /\ pc[t] = "pb_stamps" /\ CanFail
  /\ faultsLeft' = faultsLeft - 1
  /\ pc' = [pc EXCEPT ![t] = "pb_buy"]
  /\ UNCHANGED <<indexerVars, batchID, nodeVars, op, loc, respC, res, crashed,
                 opsLeft, epoch, ghostVars>>

\* mockClient.BuyStamp: "" or the validation error
BuyStampErr(amount, depth) ==
  IF amount <= 0 THEN errBuyStampInvalidAmount
  ELSE IF depth < minDepth \/ depth > maxDepth THEN errBuyStampInvalidDepth
  ELSE ErrNone

\* p.beeCli.BuyStamp(ctx, big.NewInt(10000000), 22, true)
PostageBuy(t) ==
  /\ Running /\ pc[t] = "pb_buy"
  /\ IF BuyStampErr(DefaultAmount, DefaultDepth) # ErrNone
     THEN /\ loc' = [loc EXCEPT ![t].err = BuyStampErr(DefaultAmount, DefaultDepth)]
          /\ pc' = [pc EXCEPT ![t] = loc[t].ret]
          /\ UNCHANGED stamps
     ELSE /\ stamps' = MapPut(stamps, NewBatchID(stamps),
                         [amount |-> DefaultAmount, depth |-> DefaultDepth,
                          immutable |-> TRUE, usage |-> 0])
          /\ loc' = [loc EXCEPT ![t].batch = NewBatchID(stamps)]
          /\ pc' = [pc EXCEPT ![t] = "pb_store"]
  /\ UNCHANGED <<indexerVars, batchID, data, feeds, listed, op, respC, res, crashed,
                 opsLeft, faultsLeft, epoch, ghostVars>>

\* the BuyStamp request fails: return client.BatchID(""), err
PostageBuyFail(t) ==
  /\ Running /\ pc[t] = "pb_buy" /\ CanFail
  /\ faultsLeft' = faultsLeft - 1
  /\ loc' = [loc EXCEPT ![t].err = ErrTransport]
  /\ pc' = [pc EXCEPT ![t] = loc[t].ret]
  /\ UNCHANGED <<indexerVars, batchID, nodeVars, op, respC, res, crashed,
                 opsLeft, epoch, ghostVars>>

PostageStoreSkipsCache(t) ==
  /\ Running /\ pc[t] = "pb_store"
  /\ pc' = [pc EXCEPT ![t] = loc[t].ret]
  /\ UNCHANGED <<indexerVars, batchID, nodeVars, op, loc, respC, res, crashed,
                 opsLeft, faultsLeft, epoch, ghostVars>>

\* p.lock.Lock(); p.batchID = batchID; p.lock.Unlock(); return batchID, nil
PostageStore(t) ==
  /\ Running /\ pc[t] = "pb_store"
  /\ batchID' = loc[t].batch
  /\ pc' = [pc EXCEPT ![t] = loc[t].ret]
  /\ UNCHANGED <<indexerVars, nodeVars, op, loc, respC, res, crashed,
                 opsLeft, faultsLeft, epoch, ghostVars>>

(***************************************************************************)
(* bzzdb.Put and Delete.                                                   *)
(***************************************************************************)
CanStart(p) ==
  Running /\ opsLeft > 0 /\ pc[p] = "idle" /\ pc[Go(p)] = "idle"

bzzdbPutAlwaysUploads(p, kind, k, isNil, v) ==
  /\ CanStart(p)
  /\ opsLeft' = opsLeft - 1
  /\ op' = [op EXCEPT ![p] = [kind |-> kind, key |-> k, nil |-> isNil, val |-> v]]
  /\ res' = [res EXCEPT ![p] = NoRes]
  /\ respC' = [respC EXCEPT ![p] = EmptyChan]
  /\ pc' = [pc EXCEPT ![p] = "pb_read", ![Go(p)] = "pb_read"]
  /\ loc' = [loc EXCEPT ![p] = [LocInit EXCEPT !.ret = "put_topic"],
                        ![Go(p)] = [LocInit EXCEPT !.ret = "g_upload"]]
  /\ UNCHANGED <<indexerVars, batchID, nodeVars, crashed, faultsLeft, epoch, ghostVars>>

\* Put up to the first call it waits for: uploadAsync(value) hands back the
\* channel, filled at once for a nil value, else filled by a new goroutine
bzzdbPut(p, kind, k, isNil, v) ==
  /\ CanStart(p)
  /\ opsLeft' = opsLeft - 1
  /\ op' = [op EXCEPT ![p] = [kind |-> kind, key |-> k, nil |-> isNil, val |-> v]]
  /\ res' = [res EXCEPT ![p] = NoRes]
  /\ respC' = [respC EXCEPT ![p] =
       IF isNil THEN [full |-> TRUE, ref |-> zeroSocData, err |-> ErrNone]
       ELSE EmptyChan]
  /\ pc' = [pc EXCEPT ![p] = "pb_read",
                      ![Go(p)] = IF isNil THEN "idle" ELSE "pb_read"]
  /\ loc' = [loc EXCEPT ![p] = [LocInit EXCEPT !.ret = "put_topic"],
                        ![Go(p)] = [LocInit EXCEPT !.ret = "g_upload"]]
  /\ UNCHANGED <<indexerVars, batchID, nodeVars, crashed, faultsLeft, epoch, ghostVars>>

\* Put(key, value): a value is a byte slice, nil among them
StartPut(p, K) ==
  \/ \E k \in K, v \in Values : bzzdbPut(p, "Put", k, FALSE, v)
  \/ \E k \in K : bzzdbPut(p, "Put", k, TRUE, <<>>)

\* Delete: return db.Put(key, nil)
StartDelete(p, K) == \E k \in K : bzzdbPut(p, "Delete", k, TRUE, <<>>)

\* the goroutine of uploadAsync after CurrentBatchID: db.beeCli.UploadBytes
GoUpload(g) ==
  /\ Running /\ pc[g] = "g_upload"
  /\ LET p == 0 - g
         bytes == Raw(op[p].val)
         r == upload(stamps, data, newCacAddress(bytes), bytes, loc[g].batch)
     IN IF loc[g].err # ErrNone
        THEN /\ respC' = [respC EXCEPT ![p] =
                  [full |-> TRUE, ref |-> <<>>, err |-> loc[g].err]]
             /\ UNCHANGED <<stamps, data>>
        ELSE /\ respC' = [respC EXCEPT ![p] =
                  [full |-> TRUE, ref |-> r.addr, err |-> r.err]]
             /\ stamps' = r.stamps
             /\ data' = r.data
  /\ pc' = [pc EXCEPT ![g] = "idle"]
  /\ loc' = [loc EXCEPT ![g] = LocInit]
  /\ UNCHANGED <<indexerVars, batchID, feeds, listed, op, res, crashed,
                 opsLeft, faultsLeft, epoch, ghostVars>>

\* the upload request fails: respC <- uploadResp{err: err}
GoUploadFail(g) ==
  /\ Running /\ pc[g] = "g_upload" /\ loc[g].err = ErrNone /\ CanFail
  /\ faultsLeft' = faultsLeft - 1
  /\ respC' = [respC EXCEPT ![0 - g] =
       [full |-> TRUE, ref |-> <<>>, err |-> ErrTransport]]
  /\ pc' = [pc EXCEPT ![g] = "idle"]
  /\ loc' = [loc EXCEPT ![g] = LocInit]
  /\ UNCHANGED <<indexerVars, batchID, nodeVars, op, res, crashed,
                 opsLeft, epoch, ghostVars>>

\* after CurrentBatchID: makeTopic, then db.indexer.AcquireNext
PutTopic(p) ==
  /\ Running /\ pc[p] = "put_topic"
  /\ IF loc[p].err # ErrNone
     THEN /\ pc' = [pc EXCEPT ![p] = "ret"]
          /\ UNCHANGED loc
     ELSE /\ pc' = [pc EXCEPT ![p] = "lock"]
          /\ loc' = [loc EXCEPT ![p].topic = makeTopic(op[p].key),
                                ![p].sub = "AcquireNext",
                                ![p].ret = "put_acquired"]
  /\ UNCHANGED <<indexerVars, batchID, nodeVars, op, respC, res, crashed,
                 opsLeft, faultsLeft, epoch, ghostVars>>

PutWaitIgnoresUploadError(p) ==
  /\ Running /\ pc[p] = "put_acquired"
  /\ IF loc[p].err # ErrNone
     THEN /\ pc' = [pc EXCEPT ![p] = "ret"]
          /\ UNCHANGED <<loc, respC>>
     ELSE /\ respC[p].full
          /\ respC' = [respC EXCEPT ![p] = EmptyChan]
          /\ loc' = [loc EXCEPT ![p].bytes = respC[p].ref]
          /\ pc' = [pc EXCEPT ![p] = "put_soc"]
  /\ UNCHANGED <<indexerVars, batchID, nodeVars, op, res, crashed,
                 opsLeft, faultsLeft, epoch, ghostVars>>

PutWaitSkipsRelease(p) ==
  /\ Running /\ pc[p] = "put_acquired"
  /\ IF loc[p].err # ErrNone
     THEN /\ pc' = [pc EXCEPT ![p] = "ret"]
          /\ UNCHANGED <<loc, respC>>
     ELSE /\ respC[p].full
          /\ respC' = [respC EXCEPT ![p] = EmptyChan]
          /\ IF respC[p].err # ErrNone
             THEN /\ loc' = [loc EXCEPT ![p].err = respC[p].err]
                  /\ pc' = [pc EXCEPT ![p] = "ret"]
             ELSE /\ loc' = [loc EXCEPT ![p].bytes = respC[p].ref]
                  /\ pc' = [pc EXCEPT ![p] = "put_soc"]
  /\ UNCHANGED <<indexerVars, batchID, nodeVars, op, res, crashed,
                 opsLeft, faultsLeft, epoch, ghostVars>>

\* after AcquireNext: defer db.indexer.Release(topic, index); FeedID;
\* uploadResp := <-uploadRespC.  An error return runs the deferred Release
PutWait(p) ==
  /\ Running /\ pc[p] = "put_acquired"
  /\ IF loc[p].err # ErrNone
     THEN /\ pc' = [pc EXCEPT ![p] = "ret"]
          /\ UNCHANGED <<loc, respC>>
     ELSE /\ respC[p].full
          /\ respC' = [respC EXCEPT ![p] = EmptyChan]
          /\ IF respC[p].err # ErrNone
             THEN /\ loc' = [loc EXCEPT ![p].err = respC[p].err,
                                        ![p].sub = "Release", ![p].ret = "ret"]
                  /\ pc' = [pc EXCEPT ![p] = "lock"]
             ELSE /\ loc' = [loc EXCEPT ![p].bytes = respC[p].ref]
                  /\ pc' = [pc EXCEPT ![p] = "put_soc"]
  /\ UNCHANGED <<indexerVars, batchID, nodeVars, op, res, crashed,
                 opsLeft, faultsLeft, epoch, ghostVars>>

\* mockClient.UploadSoc: [err, stamps, data, feeds]
UploadSoc(sts, dat, fds, owner, socID, bytes, batch) ==
  LET r == upload(sts, dat, newSocAddresser(owner, socID), makeSOCData(bytes), batch)
  IN [err |-> r.err, stamps |-> r.stamps, data |-> r.data,
      feeds |-> IF r.err = ErrNone
                THEN MapPut(fds, feedID(owner, socID), r.addr)
                ELSE fds]

\* PayloadWithTime(ref, time.Unix(0, 0)); SignSocData; db.beeCli.UploadSoc;
\* the deferred Release runs on the way out
PutUploadSoc(p) ==
  /\ Running /\ pc[p] = "put_soc"
  /\ LET socID == FeedID(loc[p].topic, loc[p].index)
         payload == PayloadWithTime(loc[p].bytes, 0)
         r == UploadSoc(stamps, data, feeds, Owner, socID,
                        SignSocData(socID, payload), loc[p].batch)
     IN /\ stamps' = r.stamps
        /\ data' = r.data
        /\ feeds' = r.feeds
        /\ loc' = [loc EXCEPT ![p].err = r.err,
                              ![p].sub = "Release", ![p].ret = "ret"]
        /\ published' = IF r.err = ErrNone
                        THEN BagAdd(published, <<op[p].key, loc[p].index>>)
                        ELSE published
  /\ pc' = [pc EXCEPT ![p] = "lock"]
  /\ UNCHANGED <<indexerVars, batchID, op, respC, res, crashed,
                 opsLeft, faultsLeft, epoch, acquired, lastWrite, lastOk,
                 listed, released, last>>

\* the soc request fails
PutUploadSocFail(p) ==
  /\ Running /\ pc[p] = "put_soc" /\ CanFail
  /\ faultsLeft' = faultsLeft - 1
  /\ loc' = [loc EXCEPT ![p].err = ErrTransport,
                        ![p].sub = "Release", ![p].ret = "ret"]
  /\ pc' = [pc EXCEPT ![p] = "lock"]
  /\ UNCHANGED <<indexerVars, batchID, nodeVars, op, respC, res, crashed,
                 opsLeft, epoch, ghostVars>>

(***************************************************************************)
(* bzzdb.Get and Has.                                                      *)
(***************************************************************************)
\* Get (and Has, which calls it): makeTopic, then db.indexer.Current
bzzdbGet(p, kind, k) ==
  /\ CanStart(p)
  /\ opsLeft' = opsLeft - 1
  /\ op' = [op EXCEPT ![p] = [kind |-> kind, key |-> k, nil |-> FALSE, val |-> <<>>]]
  /\ res' = [res EXCEPT ![p] = NoRes]
  /\ pc' = [pc EXCEPT ![p] = "lock"]
  /\ loc' = [loc EXCEPT ![p] = [LocInit EXCEPT !.topic = makeTopic(k),
                                               !.sub = "Current",
                                               !.ret = "get_current"]]
  /\ UNCHANGED <<indexerVars, batchID, nodeVars, respC, crashed,
                 faultsLeft, epoch, ghostVars>>

StartGet(p, K) == \E k \in K : bzzdbGet(p, "Get", k)

StartHas(p, K) == \E k \in K : bzzdbGet(p, "Has", k)

\* Download that takes stored data of length zero for missing data
DownloadEmptyIsMissing(dat, addr) ==
  IF Has_(dat, addr) /\ ByteLen(dat[addr]) > 0
  THEN [err |-> ErrNone, bytes |-> dat[addr]]
  ELSE [err |-> ErrNotFound, bytes |-> <<>>]

\* mockClient.Download / DownloadChunk: [err, bytes]
Download(dat, addr) ==
  IF Has_(dat, addr)
  THEN [err |-> ErrNone, bytes |-> dat[addr]]
  ELSE [err |-> ErrNotFound, bytes |-> <<>>]

\* Get after Current: not-exists is errBzzDBNotFound; else DownloadChunk of
\* the update reference, strip header and time, compare with zeroSocData
GetChunk(p) ==
  /\ Running /\ pc[p] = "get_current"
  /\ LET r == Download(data, FeedUpdateReference(Owner, loc[p].topic, loc[p].cur))
         respData == PayloadStripTime(RawDataFromSOCResp(r.bytes))
     IN IF loc[p].err # ErrNone
        THEN /\ pc' = [pc EXCEPT ![p] = "ret"]
             /\ UNCHANGED loc
        ELSE IF ~loc[p].exists
        THEN /\ pc' = [pc EXCEPT ![p] = "ret"]
             /\ loc' = [loc EXCEPT ![p].err = errBzzDBNotFound]
        ELSE IF r.err # ErrNone
        THEN /\ pc' = [pc EXCEPT ![p] = "ret"]
             /\ loc' = [loc EXCEPT ![p].err = r.err]
        ELSE IF respData = zeroSocData
        THEN /\ pc' = [pc EXCEPT ![p] = "ret"]
             /\ loc' = [loc EXCEPT ![p].err = errBzzDBNotFound]
        ELSE /\ pc' = [pc EXCEPT ![p] = "get_bytes"]
             /\ loc' = [loc EXCEPT ![p].bytes = respData]
  /\ UNCHANGED <<indexerVars, batchID, nodeVars, op, respC, res, crashed,
                 opsLeft, faultsLeft, epoch, ghostVars>>

\* the chunk request fails
GetChunkFail(p) ==
  /\ Running /\ pc[p] = "get_current"
  /\ loc[p].err = ErrNone /\ loc[p].exists /\ CanFail
  /\ faultsLeft' = faultsLeft - 1
  /\ loc' = [loc EXCEPT ![p].err = ErrTransport]
  /\ pc' = [pc EXCEPT ![p] = "ret"]
  /\ UNCHANGED <<indexerVars, batchID, nodeVars, op, respC, res, crashed,
                 opsLeft, epoch, ghostVars>>

\* db.downloadAndRead(db.beeCli.DownloadBytes, swarm.NewAddress(respData))
GetBytes(p) ==
  /\ Running /\ pc[p] = "get_bytes"
  /\ LET r == Download(data, loc[p].bytes)
     IN loc' = [loc EXCEPT ![p].err = r.err, ![p].bytes = r.bytes]
  /\ pc' = [pc EXCEPT ![p] = "ret"]
  /\ UNCHANGED <<indexerVars, batchID, nodeVars, op, respC, res, crashed,
                 opsLeft, faultsLeft, epoch, ghostVars>>

\* the bytes request fails
GetBytesFail(p) ==
  /\ Running /\ pc[p] = "get_bytes" /\ CanFail
  /\ faultsLeft' = faultsLeft - 1
  /\ loc' = [loc EXCEPT ![p].err = ErrTransport, ![p].bytes = <<>>]
  /\ pc' = [pc EXCEPT ![p] = "ret"]
  /\ UNCHANGED <<indexerVars, batchID, nodeVars, op, respC, res, crashed,
                 opsLeft, epoch, ghostVars>>

\* Has that answers true when Get finds nothing
HasResultNotFoundTrue(getErr) ==
  IF getErr = ErrNone \/ getErr = errBzzDBNotFound
  THEN [found |-> TRUE, err |-> ErrNone]
  ELSE IF getErr = ErrNotFound THEN [found |-> FALSE, err |-> ErrNone]
  ELSE [found |-> FALSE, err |-> getErr]

\* Has: not-found of either kind is (false, nil), another error is
\* (false, err), no error is (true, nil)
HasResult(getErr) ==
  IF getErr = ErrNone THEN [found |-> TRUE, err |-> ErrNone]
  ELSE IF getErr = errBzzDBNotFound \/ getErr = ErrNotFound
  THEN [found |-> FALSE, err |-> ErrNone]
  ELSE [found |-> FALSE, err |-> getErr]

(***************************************************************************)
(* Direct calls of the FeedIndexer (as Test_FeedIndexer makes them).       *)
(***************************************************************************)
IndexerCall(p, sub, k, i) ==
  /\ CanStart(p)
  /\ opsLeft' = opsLeft - 1
  /\ op' = [op EXCEPT ![p] = [kind |-> sub, key |-> k, nil |-> FALSE, val |-> <<>>]]
  /\ res' = [res EXCEPT ![p] = NoRes]
  /\ pc' = [pc EXCEPT ![p] = "lock"]
  /\ loc' = [loc EXCEPT ![p] = [LocInit EXCEPT !.topic = makeTopic(k),
                                               !.sub = sub, !.index = i,
                                               !.ret = "ret"]]
  /\ UNCHANGED <<indexerVars, batchID, nodeVars, respC, crashed,
                 faultsLeft, epoch, ghostVars>>

StartAcquireNext(p, K) == \E k \in K : IndexerCall(p, "AcquireNext", k, 0)

StartCurrent(p, K) == \E k \in K : IndexerCall(p, "Current", k, 0)

StartRelease(p, K) ==
  \E k \in K, i \in 0..MaxRelease : IndexerCall(p, "Release", k, i)

\* a direct call of postage.CurrentBatchID
StartCurrentBatchID(p) ==
  /\ CanStart(p)
  /\ opsLeft' = opsLeft - 1
  /\ op' = [op EXCEPT ![p] = [NoOp EXCEPT !.kind = "CurrentBatchID"]]
  /\ res' = [res EXCEPT ![p] = NoRes]
  /\ pc' = [pc EXCEPT ![p] = "pb_read"]
  /\ loc' = [loc EXCEPT ![p] = [LocInit EXCEPT !.ret = "ret"]]
  /\ UNCHANGED <<indexerVars, batchID, nodeVars, respC, crashed,
                 faultsLeft, epoch, ghostVars>>

(***************************************************************************)
(* The mock node's Stamps and BuyStamp as CurrentBatchID calls them, step  *)
(* by step: a goroutine between the Lock and the Unlock of BuyStamp holds  *)
(* mockClient.lock.                                                        *)
(***************************************************************************)
\* the goroutines between c.lock.Lock() and c.lock.Unlock()
MockLockHolders == {t \in Threads : pc[t] \in {"mb_write", "mb_unlock"}}

\* mockClient.Stamps: the range over c.stamps begins; no Lock is taken
MockStampsRange(t) ==
  /\ Running /\ pc[t] = "pb_stamps"
  /\ pc' = [pc EXCEPT ![t] = "ms_range"]
  /\ UNCHANGED <<indexerVars, batchID, nodeVars, op, loc, respC, res, crashed,
                 opsLeft, faultsLeft, epoch, ghostVars>>

\* the range ends and fetchFirstUsableStamp looks through the listing; a
\* ticket written during the range is listed or not, and is not usable to
\* fetchFirstUsableStamp either way
MockStampsReturn(t) ==
  /\ Running /\ pc[t] = "ms_range"
  /\ LET usable == FirstUsable(Stamps(stamps))
     IN IF usable = {}
        THEN /\ pc' = [pc EXCEPT ![t] = "pb_buy"]
             /\ UNCHANGED loc
        ELSE /\ \E b \in usable : loc' = [loc EXCEPT ![t].batch = b]
             /\ pc' = [pc EXCEPT ![t] = "pb_store"]
  /\ UNCHANGED <<indexerVars, batchID, nodeVars, op, respC, res, crashed,
                 opsLeft, faultsLeft, epoch, ghostVars>>

\* mockClient.BuyStamp(10000000, 22, true) up to c.lock.Lock()
MockBuyLock(t) ==
  /\ Running /\ pc[t] = "pb_buy"
  /\ BuyStampErr(DefaultAmount, DefaultDepth) = ErrNone
  /\ MockLockHolders = {}
  /\ pc' = [pc EXCEPT ![t] = "mb_write"]
  /\ UNCHANGED <<indexerVars, batchID, nodeVars, op, loc, respC, res, crashed,
                 opsLeft, faultsLeft, epoch, ghostVars>>

\* c.stamps[batchID] = &stampData{...}
MockBuyWrite(t) ==
  /\ Running /\ pc[t] = "mb_write"
  /\ stamps' = MapPut(stamps, NewBatchID(stamps),
                      [amount |-> DefaultAmount, depth |-> DefaultDepth,
                       immutable |-> TRUE, usage |-> 0])
  /\ loc' = [loc EXCEPT ![t].batch = NewBatchID(stamps)]
  /\ pc' = [pc EXCEPT ![t] = "mb_unlock"]
  /\ UNCHANGED <<indexerVars, batchID, data, feeds, listed, op, respC, res,
                 crashed, opsLeft, faultsLeft, epoch, ghostVars>>

\* c.lock.Unlock(); return resp, nil
MockBuyUnlock(t) ==
  /\ Running /\ pc[t] = "mb_unlock"
  /\ pc' = [pc EXCEPT ![t] = "pb_store"]
  /\ UNCHANGED <<indexerVars, batchID, nodeVars, op, loc, respC, res, crashed,
                 opsLeft, faultsLeft, epoch, ghostVars>>

\* the runtime's check of unsynchronised map access: the write of c.stamps
\* during a range over it may end the program
MockRaceFatal ==
  /\ Running
  /\ \E t \in Threads, u \in Threads :
       pc[t] = "ms_range" /\ pc[u] = "mb_write"
  /\ crashed' = FatalMapRace
  /\ UNCHANGED <<indexerVars, batchID, nodeVars, op, pc, loc, respC, res,
                 opsLeft, faultsLeft, epoch, ghostVars>>

(***************************************************************************)
(* Direct calls of the node's client (as the client TestSuite makes them   *)
(* on the mock): each runs under mockClient.lock, in one step.             *)
(***************************************************************************)
\* mockClient.BuyStamp: [err, id, stamps]
BuyStamp(sts, amount, depth, immutable) ==
  IF BuyStampErr(amount, depth) # ErrNone
  THEN [err |-> BuyStampErr(amount, depth), id |-> NoBatch, stamps |-> sts]
  ELSE [err |-> ErrNone, id |-> NewBatchID(sts),
        stamps |-> MapPut(sts, NewBatchID(sts),
                     [amount |-> amount, depth |-> depth,
                      immutable |-> immutable, usage |-> 0])]

\* the inputs of the calls: amounts and depths (a uint8) around the limits of
\* BuyStamp, the ticket ids the node knows and one it does not, the indices
\* of feed updates
Amounts == {0 - 1, 0, DefaultAmount}
Depths == {0, bucketDepth, minDepth, bucketDepth + 63, maxDepth}
BatchIDs == DOMAIN stamps \cup {NewBatchID(stamps)}
FeedIndices == 0..MaxFeedIndex

CanCall == Running /\ opsLeft > 0

ClientBuyStamp ==
  \E amount \in Amounts, depth \in Depths :
    LET r == BuyStamp(stamps, amount, depth, TRUE)
    IN /\ CanCall
       /\ opsLeft' = opsLeft - 1
       /\ stamps' = r.stamps
       /\ last' = [NoCall EXCEPT !.call = "BuyStamp", !.amount = amount,
                                 !.depth = depth, !.err = r.err, !.batch = r.id,
                                 !.made = r.stamps # stamps]
       /\ UNCHANGED <<indexerVars, batchID, data, feeds, listed, op, pc, loc,
                      respC, res, crashed, faultsLeft, epoch, acquired,
                      published, lastWrite, lastOk, released>>

\* the byte strings uploaded: the values, one of exactly a chunk and one of
\* a byte more
Blobs == {Raw(v) : v \in Values} \cup {Zeros(chunkSize), Zeros(chunkSize + 1)}

\* c.Upload(ctx, data, batchID)
ClientUpload ==
  \E d \in Blobs, b \in BatchIDs :
    LET r == upload(stamps, data, newCacAddress(d), d, b)
    IN /\ CanCall
       /\ opsLeft' = opsLeft - 1
       /\ stamps' = r.stamps
       /\ data' = r.data
       /\ last' = [NoCall EXCEPT !.call = "Upload", !.bytes = d, !.batch = b,
                                 !.err = r.err, !.addr = r.addr,
                                 !.made = r.data # data \/ r.stamps # stamps]
       /\ UNCHANGED <<indexerVars, batchID, feeds, listed, op, pc, loc,
                      respC, res, crashed, faultsLeft, epoch, acquired,
                      published, lastWrite, lastOk, released>>

\* c.Download(ctx, addr), at the address of a byte string
ClientDownload ==
  \E v \in Values :
    LET r == Download(data, newCacAddress(Raw(v)))
    IN /\ CanCall
       /\ opsLeft' = opsLeft - 1
       /\ last' = [NoCall EXCEPT !.call = "Download", !.bytes = Raw(v),
                                 !.addr = newCacAddress(Raw(v)),
                                 !.err = r.err, !.out = r.bytes]
       /\ UNCHANGED <<indexerVars, batchID, nodeVars, op, pc, loc,
                      respC, res, crashed, faultsLeft, epoch, acquired,
                      published, lastWrite, lastOk, released>>

\* uploadFeedUpdate up to UploadSoc: FeedID, PayloadWithTime(dataRaw,
\* time.Unix(0, 0)), SignSocData, c.UploadSoc
ClientUploadSoc(K) ==
  \E k \in K, i \in FeedIndices, v \in Values, b \in BatchIDs :
    LET socID == FeedID(makeTopic(k), i)
        payload == PayloadWithTime(Raw(v), 0)
        r == UploadSoc(stamps, data, feeds, Owner, socID,
                       SignSocData(socID, payload), b)
    IN /\ CanCall
       /\ opsLeft' = opsLeft - 1
       /\ stamps' = r.stamps
       /\ data' = r.data
       /\ feeds' = r.feeds
       /\ last' = [NoCall EXCEPT !.call = "UploadSoc", !.key = k, !.index = i,
                                 !.bytes = payload, !.batch = b, !.err = r.err]
       /\ UNCHANGED <<indexerVars, batchID, listed, op, pc, loc,
                      respC, res, crashed, faultsLeft, epoch, acquired,
                      published, lastWrite, lastOk, released>>

\* uploadFeedUpdate after it: FeedUpdateReference, c.DownloadChunk
ClientDownloadChunk(K) ==
  \E k \in K, i \in FeedIndices :
    LET ref == FeedUpdateReference(Owner, makeTopic(k), i)
        r == Download(data, ref)
    IN /\ CanCall
       /\ opsLeft' = opsLeft - 1
       /\ last' = [NoCall EXCEPT !.call = "DownloadChunk", !.key = k, !.index = i,
                                 !.addr = ref, !.err = r.err, !.out = r.bytes]
       /\ UNCHANGED <<indexerVars, batchID, nodeVars, op, pc, loc,
                      respC, res, crashed, faultsLeft, epoch, acquired,
                      published, lastWrite, lastOk, released>>

\* c.FeedIndexLatest(ctx, owner, topic): the mock's error is nil
ClientFeedIndexLatest(K) ==
  \E k \in K :
    /\ CanCall
    /\ opsLeft' = opsLeft - 1
    /\ last' = [NoCall EXCEPT !.call = "FeedIndexLatest", !.key = k,
                              !.err = ErrNone,
                              !.resp = FeedIndexLatest(feeds, Owner, makeTopic(k))]
    /\ UNCHANGED <<indexerVars, batchID, nodeVars, op, pc, loc,
                   respC, res, crashed, faultsLeft, epoch, acquired,
                   published, lastWrite, lastOk, released>>

(***************************************************************************)
(* The return of an operation to its caller.                               *)
(***************************************************************************)
IsWrite(kind) == kind \in {"Put", "Delete"}

ResultOf(p) ==
  LET k == op[p].kind
      e == loc[p].err
  IN [kind |-> k, key |-> op[p].key,
      err |-> IF k = "Has" THEN HasResult(e).err ELSE e,
      gerr |-> IF k = "Has" THEN e ELSE ErrNone,
      out |-> IF k = "Get" /\ e = ErrNone THEN loc[p].bytes ELSE <<>>,
      found |-> IF k = "Has" THEN HasResult(e).found ELSE FALSE,
      index |-> IF e # ErrNone THEN 0
                ELSE IF k = "AcquireNext" THEN loc[p].index
                ELSE IF k = "Current" THEN loc[p].cur
                ELSE IF k = "CurrentBatchID" THEN loc[p].batch
                ELSE 0,
      exists |-> k = "Current" /\ e = ErrNone /\ loc[p].exists,
      epoch |-> epoch]

Return(p) ==
  /\ Running /\ pc[p] = "ret"
  /\ res' = [res EXCEPT ![p] = ResultOf(p)]
  /\ lastWrite' =
       IF IsWrite(op[p].kind)
       THEN [lastWrite EXCEPT ![op[p].key] =
              [set |-> TRUE, kind |-> op[p].kind, nil |-> op[p].nil,
               val |-> op[p].val,
               ok |-> loc[p].err = ErrNone, epoch |-> epoch,
               first |-> IF lastWrite[op[p].key].set
                         THEN lastWrite[op[p].key].first ELSE epoch,
               failed |-> lastWrite[op[p].key].failed \/ loc[p].err # ErrNone]]
       ELSE lastWrite
  /\ lastOk' =
       IF IsWrite(op[p].kind) /\ loc[p].err = ErrNone
       THEN [lastOk EXCEPT ![op[p].key] =
              [set |-> TRUE, kind |-> op[p].kind, nil |-> op[p].nil,
               val |-> op[p].val,
               ok |-> TRUE, epoch |-> epoch, first |-> 0, failed |-> FALSE]]
       ELSE lastOk
  /\ op' = [op EXCEPT ![p] = NoOp]
  /\ pc' = [pc EXCEPT ![p] = "idle"]
  /\ loc' = [loc EXCEPT ![p] = LocInit]
  /\ UNCHANGED <<indexerVars, batchID, nodeVars, respC, crashed,
                 opsLeft, faultsLeft, epoch, acquired, published, released, last>>

\* bzzdb.New and postage.New again, over the same node: a new orchestrator
\* (the process restarted) with an empty index map and an empty ticket cache
Restart ==
  /\ Running /\ opsLeft > 0
  /\ \A t \in Threads : pc[t] = "idle"
  /\ opsLeft' = opsLeft - 1
  /\ lock' = FALSE
  /\ indexMap' = EmptyMap
  /\ entries' = <<>>
  /\ batchID' = NoBatch
  /\ epoch' = epoch + 1
  /\ res' = [p \in Procs |-> NoRes]
  /\ UNCHANGED <<nodeVars, op, pc, loc, respC, crashed, faultsLeft, ghostVars>>

(***************************************************************************)
(* The specifications.                                                     *)
(***************************************************************************)
\* the steps of the FeedIndexer a thread takes inside a call
IndexerStep(t) ==
  \/ IdxLock(t)
  \/ IdxLookup(t)
  \/ IdxUnlockForFetch(t)
  \/ IdxFetch(t)
  \/ IdxFetchFail(t)
  \/ IdxRelock(t)
  \/ IdxCheck(t)
  \/ IdxInstall(t)
  \/ AcquireTake(t)
  \/ AcquireIncr(t)
  \/ ReleaseCompare(t)
  \/ ReleaseSet(t)
  \/ CurrentRead(t)
  \/ IdxDeferredUnlock(t)

\* the steps of postage.CurrentBatchID
PostageStep(t) ==
  \/ PostageRead(t)
  \/ PostageStamps(t)
  \/ PostageStampsFail(t)
  \/ PostageBuy(t)
  \/ PostageBuyFail(t)
  \/ PostageStore(t)

\* the steps of Put, Delete, Get and Has
StoreStep(p) ==
  \/ PostageStep(p)
  \/ PostageStep(Go(p))
  \/ GoUpload(Go(p))
  \/ GoUploadFail(Go(p))
  \/ PutTopic(p)
  \/ PutWait(p)
  \/ PutUploadSoc(p)
  \/ PutUploadSocFail(p)
  \/ GetChunk(p)
  \/ GetChunkFail(p)
  \/ GetBytes(p)
  \/ GetBytesFail(p)

StartStore(p, K) ==
  \/ StartPut(p, K)
  \/ StartDelete(p, K)
  \/ StartGet(p, K)
  \/ StartHas(p, K)

\* the one caller, and the one key, of the sequential specifications
Caller == 1
OneKey == {1}

\* goroutines calling AcquireNext, Release and Current of one FeedIndexer
NextIdx ==
  \/ \E p \in Procs :
       \/ StartAcquireNext(p, Keys)
       \/ StartRelease(p, Keys)
       \/ StartCurrent(p, Keys)
       \/ IndexerStep(p)
       \/ Return(p)
  \/ MapRaceFatal

SpecIdx == InitIdx /\ [][NextIdx]_vars

\* the same goroutines, making fewer calls
InitIdxFew == InitWith(MaxFewOps)

SpecIdxFew == InitIdxFew /\ [][NextIdx]_vars

\* one goroutine calling AcquireNext, Release and Current of one FeedIndexer
\* on one topic, one call after the other (as Test_FeedIndexer does)
InitIdxSeq == InitWith(MaxSeqOps)

NextIdxSeq ==
  \/ StartAcquireNext(Caller, OneKey)
  \/ StartRelease(Caller, OneKey)
  \/ StartCurrent(Caller, OneKey)
  \/ IndexerStep(Caller)
  \/ Return(Caller)

SpecIdxSeq == InitIdxSeq /\ [][NextIdxSeq]_vars

\* the node after an earlier orchestrator bought a ticket and published n
\* updates (of deletions) on the topic of key 1: BuyStamp, then UploadSoc at
\* the indices 0..n-1
RECURSIVE NodeAfter(_)
NodeAfter(n) ==
  IF n = 0 THEN EmptyNode
  ELSE LET prev == NodeAfter(n - 1)
           sts == IF n = 1
                  THEN BuyStamp(prev.stamps, DefaultAmount, DefaultDepth, TRUE).stamps
                  ELSE prev.stamps
           socID == FeedID(makeTopic(1), n - 1)
           r == UploadSoc(sts, prev.data, prev.feeds, Owner, socID,
                          SignSocData(socID, PayloadWithTime(zeroSocData, 0)),
                          NewBatchID(EmptyMap))
       IN [stamps |-> r.stamps, data |-> r.data, feeds |-> r.feeds]

\* the one goroutine of SpecIdxSeq on a new FeedIndexer, over a node whose
\* feed already has 0..MaxUpdates updates
InitIdxPrimed ==
  \E n \in 0..MaxUpdates : InitOver(MaxSeqOps, {<<>>}, NodeAfter(n))

SpecIdxPrimed == InitIdxPrimed /\ [][NextIdxSeq]_vars

\* the node after the ticket of the orchestrator was bought, and the id the
\* cache holds once a first CurrentBatchID has returned (as the tests call it
\* before their first upload)
WarmNode ==
  [EmptyNode EXCEPT
     !.stamps = BuyStamp(EmptyMap, DefaultAmount, DefaultDepth, TRUE).stamps]

InitPuts == InitCached(MaxPutOps, {<<>>}, WarmNode, NewBatchID(EmptyMap))

\* goroutines calling Put and Get of one orchestrator on one key, the ticket
\* being cached
NextPuts ==
  \E p \in Procs :
       \/ StartPut(p, OneKey)
       \/ StartGet(p, OneKey)
       \/ PostageRead(p)
       \/ PostageRead(Go(p))
       \/ GoUpload(Go(p))
       \/ GoUploadFail(Go(p))
       \/ PutTopic(p)
       \/ PutWait(p)
       \/ PutUploadSoc(p)
       \/ PutUploadSocFail(p)
       \/ GetChunk(p)
       \/ GetChunkFail(p)
       \/ GetBytes(p)
       \/ GetBytesFail(p)
       \/ IndexerStep(p)
       \/ Return(p)

SpecPuts == InitPuts /\ [][NextPuts]_vars

\* one caller using the store, one call after the other (the upload
\* goroutine of a Put runs beside it), and restarts of the orchestrator
Next ==
  \/ StartStore(Caller, OneKey)
  \/ IndexerStep(Caller)
  \/ StoreStep(Caller)
  \/ Return(Caller)
  \/ Restart

Spec == Init /\ [][Next]_vars

\* one caller of the mock client, one call after the other
InitClient == InitWith(MaxClientOps)

NextClient ==
  \/ ClientBuyStamp
  \/ ClientUpload
  \/ ClientDownload
  \/ ClientUploadSoc(OneKey)
  \/ ClientDownloadChunk(OneKey)
  \/ ClientFeedIndexLatest(OneKey)

SpecClient == InitClient /\ [][NextClient]_vars

\* the ticket listings a node may hold when the client is created
ListedIDs == {11, 12}
Listings ==
  UNION {[1..n -> [BatchID : ListedIDs, Usable : BOOLEAN, Exists : BOOLEAN]] :
           n \in 0..MaxListing}

\* one caller of postage.CurrentBatchID, one call after the other
InitPostage == InitNode(MaxBatchOps, Listings)

NextPostage ==
  \/ StartCurrentBatchID(Caller)
  \/ PostageStep(Caller)
  \/ Return(Caller)

SpecPostage == InitPostage /\ [][NextPostage]_vars

\* goroutines calling CurrentBatchID of one postage cache
NextPostageConc ==
  \E p \in Procs :
    \/ StartCurrentBatchID(p)
    \/ PostageStep(p)
    \/ Return(p)

SpecPostageConc == InitPostage /\ [][NextPostageConc]_vars

\* the same goroutines on a new postage cache, over a mock node through
\* which a ticket was bought before
InitPostageWarm == InitOver(MaxBatchOps, {<<>>}, WarmNode)

SpecPostageWarm == InitPostageWarm /\ [][NextPostageConc]_vars

\* the same goroutines, the calls of the mock node taken step by step
NextMock ==
  \/ \E p \in Procs :
       \/ StartCurrentBatchID(p)
       \/ PostageRead(p)
       \/ MockStampsRange(p)
       \/ MockStampsReturn(p)
       \/ MockBuyLock(p)
       \/ MockBuyWrite(p)
       \/ MockBuyUnlock(p)
       \/ PostageStore(p)
       \/ Return(p)
  \/ MockRaceFatal

SpecMock == InitPostageWarm /\ [][NextMock]_vars

(***************************************************************************)
(* Views of the state the properties use.                                  *)
(***************************************************************************)
\* the indexer's current index of a key's topic, NilIdx when the topic has
\* no entry or its current is nil
CurOf(k) ==
  IF Has_(indexMap, makeTopic(k))
  THEN entries[indexMap[makeTopic(k)]].current
  ELSE NilIdx

\* the callers whose last call was an AcquireNext of key k that has returned
Acquirers(k) ==
  {q \in Procs : res[q].kind = "AcquireNext" /\ res[q].key = k}

\* only AcquireNext calls have been made, one by each caller that made any,
\* and no request to the node has failed
OnlyAcquires ==
  /\ \A q \in Procs : /\ op[q].kind \in {"", "AcquireNext"}
                      /\ res[q].kind \in {"", "AcquireNext"}
                      /\ ~(op[q].kind # "" /\ res[q].kind # "")
  /\ MaxIdxOps - opsLeft =
       Cardinality({q \in Procs : op[q].kind # "" \/ res[q].kind # ""})
  /\ faultsLeft = MaxFaults

AllIdle == \A t \in Threads : pc[t] = "idle"

(***************************************************************************)
(* Properties of the FeedIndexer under concurrent callers (SpecIdx).       *)
(***************************************************************************)
\* C1: no two AcquireNext calls on the same topic of one FeedIndexer return
\* the same index, whatever the interleaving of the callers.
C1_NoIndexReturnedTwice ==
  \A x \in DOMAIN acquired : acquired[x] <= 1

\* C2: when the callers concurrently call AcquireNext on a topic the indexer
\* has not seen and the node reports nothing written, every call returns
\* without error (none panics, the program runs on) and, once all have
\* returned, the n indices returned for the topic are exactly 0..n-1.
C2_FreshTopicPermutation ==
  OnlyAcquires =>
    /\ Running
    /\ \A q \in Procs : ~loc[q].panic /\ loc[q].err = ErrNone
    /\ AllIdle =>
         \A k \in Keys :
           /\ \A q \in Acquirers(k) : res[q].err = ErrNone
           /\ {res[q].index : q \in Acquirers(k)} =
                0 .. (Cardinality(Acquirers(k)) - 1)

\* C10: once the current index of a topic is set it never decreases and never
\* becomes unset, under any interleaving of AcquireNext, Release and Current.
C10_CurrentNeverDecreases ==
  [][\A k \in Keys :
       CurOf(k) # NilIdx => (CurOf(k)' # NilIdx /\ CurOf(k)' >= CurOf(k))]_vars

(***************************************************************************)
(* Properties of the store used by one caller (Spec).                      *)
(***************************************************************************)
\* the two errors that mean not found
NotFoundErrs == {errBzzDBNotFound, ErrNotFound}

\* Get(k) evaluated in the current state, between two calls, by a node that
\* answers every request: [err, bytes]
GetNow(k) ==
  LET topic == makeTopic(k)
      idata == IF Has_(indexMap, topic)
               THEN entries[indexMap[topic]]
               ELSE newFeedIndexData(FeedIndexLatest(feeds, Owner, topic))
      chunk == Download(data, FeedUpdateReference(Owner, topic, idata.current))
      ref == PayloadStripTime(RawDataFromSOCResp(chunk.bytes))
  IN IF idata.current = NilIdx THEN [err |-> errBzzDBNotFound, bytes |-> <<>>]
     ELSE IF chunk.err # ErrNone THEN [err |-> chunk.err, bytes |-> <<>>]
     ELSE IF ref = zeroSocData THEN [err |-> errBzzDBNotFound, bytes |-> <<>>]
     ELSE Download(data, ref)

\* a call of the given kinds has returned to caller p from the orchestrator
\* in use, and not with a failure of the transport
Returned(p, kinds) ==
  /\ res[p].kind \in kinds
  /\ res[p].epoch = epoch
  /\ res[p].err # ErrTransport
  /\ res[p].gerr # ErrTransport

\* the last write of key k that returned was made on the orchestrator in use
\* and succeeded
LastWriteOk(k) ==
  /\ lastWrite[k].set
  /\ lastWrite[k].ok
  /\ lastWrite[k].epoch = epoch

\* the payload of the feed update the indexer's current index names
CurrentPayload(k) ==
  PayloadStripTime(RawDataFromSOCResp(
    Download(data, FeedUpdateReference(Owner, makeTopic(k), CurOf(k))).bytes))

\* C3: after sequential Put/Delete calls of one orchestrator on a key, some
\* of which returned an error, Get returns the value of the most recent Put
\* that returned success, and not-found if that was a deletion or if none
\* succeeded: a Put that fails does not change what Get returns.
C3_FailedPutLeavesGetUnchanged ==
  \A p \in Procs :
    (/\ Returned(p, {"Get"})
     /\ lastWrite[res[p].key].set
     /\ lastWrite[res[p].key].first = epoch) =>
      LET w == lastOk[res[p].key]
      IN IF w.set /\ ~w.nil
         THEN res[p].err = ErrNone /\ res[p].out = Raw(w.val)
         ELSE res[p].err \in NotFoundErrs

\* C4: the current index of a topic is advanced to an index only after the
\* feed update of that index has been published: in every state the current
\* index of a key names a feed update the node holds.
C4_CurrentIsPublished ==
  \A k \in Keys :
    CurOf(k) # NilIdx =>
      Has_(feeds, feedID(Owner, FeedID(makeTopic(k), CurOf(k))))

\* C5 (as claimed): a Put(k, v) that returns success, v any byte string (the
\* nil slice, of length 0, among them), followed with no other write of k in
\* between by Get(k) on the same orchestrator, makes a Get the transport does
\* not fail return exactly v.
C5_RoundTripAnyValue ==
  \A p \in Procs :
    (/\ Returned(p, {"Get"})
     /\ LastWriteOk(res[p].key)
     /\ lastWrite[res[p].key].kind = "Put") =>
      /\ res[p].err = ErrNone
      /\ res[p].out = Raw(lastWrite[res[p].key].val)

\* C5 (amended): a Put(k, v) that returns success, v any byte string but the
\* nil slice (the empty non-nil one among them), followed with no other write
\* of k in between by Get(k) on the same orchestrator, makes a Get the
\* transport does not fail return exactly v.
C5_RoundTripNonNil ==
  \A p \in Procs :
    (/\ Returned(p, {"Get"})
     /\ LastWriteOk(res[p].key)
     /\ lastWrite[res[p].key].kind = "Put"
     /\ ~lastWrite[res[p].key].nil) =>
      /\ res[p].err = ErrNone
      /\ res[p].out = Raw(lastWrite[res[p].key].val)

\* a Get has returned the empty, non-nil value the Put before it wrote
C5_Witness ==
  /\ Returned(Caller, {"Get"})
  /\ LastWriteOk(res[Caller].key)
  /\ lastWrite[res[Caller].key].kind = "Put"
  /\ ~lastWrite[res[Caller].key].nil
  /\ lastWrite[res[Caller].key].val = <<>>
  /\ res[Caller].err = ErrNone
  /\ res[Caller].out = <<>>

\* C6: after a Put(k, v) and then a Delete(k) that succeed, Get(k) reports
\* not-found and Has(k) returns (false, nil); the update Delete published is
\* the one Put(k, nil) publishes, its blob reference the all-zero reference.
C6_DeleteThenGet ==
  \A k \in Keys :
    (LastWriteOk(k) /\ lastWrite[k].nil) =>
      /\ AllIdle => (CurOf(k) # NilIdx /\ CurrentPayload(k) = zeroSocData)
      /\ \A p \in Procs :
           (Returned(p, {"Get", "Has"}) /\ res[p].key = k) =>
             IF res[p].kind = "Get"
             THEN res[p].err = errBzzDBNotFound
             ELSE ~res[p].found /\ res[p].err = ErrNone

\* Put(k, v), Delete(k), Get(k) have run in this order and succeeded
C6_Witness ==
  /\ Returned(Caller, {"Get"})
  /\ LastWriteOk(res[Caller].key)
  /\ lastWrite[res[Caller].key].kind = "Delete"
  /\ Count(published, <<res[Caller].key, 0>>) = 1
  /\ Count(published, <<res[Caller].key, 1>>) = 1
  /\ res[Caller].err = errBzzDBNotFound

\* C7: Has(k) returns true if and only if Get(k), evaluated in the state Has
\* returned in, returns a value without error; with true the error is nil.
C7_HasAgreesWithGet ==
  \A p \in Procs :
    Returned(p, {"Has"}) =>
      /\ res[p].found <=> (GetNow(res[p].key).err = ErrNone)
      /\ res[p].found => res[p].err = ErrNone

\* Has has returned true for a key a Put wrote
C7_Witness ==
  /\ Returned(Caller, {"Has"})
  /\ res[Caller].found
  /\ LastWriteOk(res[Caller].key)
  /\ GetNow(res[Caller].key).err = ErrNone

\* C8: Has returns (false, nil) exactly when its Get fails with not-found and
\* returns the error of its Get when that is any other error; a Has whose Get
\* met a failure of the priming query goes on to return that error (the
\* program is not ended under it).
C8_HasPropagatesErrors ==
  \A p \in Procs :
    /\ res[p].kind = "Has" =>
         /\ (~res[p].found /\ res[p].err = ErrNone) <=> (res[p].gerr \in NotFoundErrs)
         /\ res[p].gerr \notin (NotFoundErrs \cup {ErrNone}) => res[p].err = res[p].gerr
    /\ (op[p].kind = "Has" /\ loc[p].err = ErrFeedIndex) => Running

\* a key has never been written; a key's last write is a deletion that
\* succeeded on the orchestrator in use
NeverWritten(k) == ~lastWrite[k].set

Deleted(k) == LastWriteOk(k) /\ lastWrite[k].nil

\* C9: Get and Has give the same results for a key never written as for a
\* key written and then deleted: Get reports the same not-found error and Has
\* returns (false, nil).
C9_NeverWrittenLikeDeleted ==
  \A p \in Procs :
    (/\ Returned(p, {"Get", "Has"})
     /\ NeverWritten(res[p].key) \/ Deleted(res[p].key)) =>
      IF res[p].kind = "Get"
      THEN res[p].err = errBzzDBNotFound
      ELSE ~res[p].found /\ res[p].err = ErrNone /\ res[p].gerr = errBzzDBNotFound

\* Has has returned (false, nil) for a key written and then deleted
C9_Witness ==
  /\ Returned(Caller, {"Has"})
  /\ Deleted(res[Caller].key)
  /\ Count(published, <<res[Caller].key, 0>>) = 1
  /\ Count(published, <<res[Caller].key, 1>>) = 1
  /\ ~res[Caller].found

\* C12: AcquireNext never changes a topic's current index: no step of an
\* AcquireNext call changes the current index of any topic (so Current keeps
\* answering (0, false) until the first Release, and (0, true) after
\* Release(topic, 0)).
C12_AcquireNextKeepsCurrent ==
  [][\A t \in Procs, k \in Keys :
       (pc[t] # "idle" /\ pc'[t] # pc[t] /\ loc[t].sub = "AcquireNext")
         => CurOf(k)' = CurOf(k)]_vars

\* the positions of the node query: after the first Unlock, up to the re-Lock
AtQuery(t) == pc[t] \in {"unlock1", "fetch", "relock"}

\* t moves on this step
Moves(t) == pc'[t] # pc[t]

\* C18: the indexer queries the node for a topic only from a call that found
\* the topic without an entry: an installed entry stays in the map, a call
\* that looks up a topic with an entry never goes on to the query, only the
\* lookup leads to the query, and Release never queries the node.
C18_NoQueryOnceInstalled ==
  [][/\ \A tp \in DOMAIN indexMap : Has_(indexMap', tp)
     /\ \A t \in Procs :
          /\ (Moves(t) /\ AtQuery(t)' /\ ~AtQuery(t)) =>
               /\ pc[t] = "lookup"
               /\ ~Has_(indexMap, loc[t].topic)
               /\ loc[t].sub # "Release"
          /\ AtQuery(t)' => loc'[t].sub # "Release"]_vars

\* an AcquireNext found the entry an earlier call installed and used, and is
\* at its operation, and a Release of a topic without an entry is at its
\* return: neither has queried
C18_Witness ==
  \E t, u \in Procs :
    /\ pc[t] = "take" /\ loc[t].idata # NilPtr
    /\ loc[t].idata = MapGet(loc[t].topic)
    /\ entries[loc[t].idata].next > 0
    /\ pc[u] = "ret" /\ loc[u].sub = "Release"
    /\ ~Has_(indexMap, loc[u].topic)

\* C19: a caller that re-acquires the lock after its query and finds the
\* entry a concurrent caller installed completes its operation on that
\* entry: every caller at its operation holds the entry of its topic, and
\* none panics.
C19_SecondInitializerReusesEntry ==
  \A t \in Procs :
    /\ pc[t] \in {"take", "read"} => loc[t].idata # NilPtr
    /\ ~loc[t].panic

\* the positions between a Lock and the Unlock that follows it
InCrit(t) ==
  \/ pc[t] \in {"lookup", "unlock1", "check", "install", "take", "incr",
                "cmp", "set", "read"}
  \/ pc[t] = "defer" /\ loc[t].err = ErrNone

\* C20: the indexer lock is not held while a node query is in flight:
\* whenever the lock is held, a caller that is not waiting for the node is
\* between its Lock and its Unlock (so calls on other topics get the lock
\* while one waits for FeedIndexLatest).
C20_LockFreeDuringQuery ==
  lock => \E t \in Procs : InCrit(t)

\* one caller waits for FeedIndexLatest of its topic while another holds
\* the lock and operates on the installed entry of another topic
C20_Witness ==
  \E t, u \in Procs :
    /\ pc[t] = "fetch" /\ lock
    /\ pc[u] \in {"take", "incr", "cmp", "set", "read"}
    /\ loc[u].topic # loc[t].topic
    /\ loc[u].idata # NilPtr /\ loc[u].idata = MapGet(loc[u].topic)

(***************************************************************************)
(* Properties of the FeedIndexer under one caller (SpecIdxSeq).            *)
(***************************************************************************)
\* the indices of key k that AcquireNext calls have returned
HandedOut(k) == {i \in 0..MaxSeqOps : Count(acquired, <<k, i>>) > 0}

\* the caller's last call was a Current of key k and returned without error
CurrentReturned(k) ==
  /\ res[Caller].kind = "Current" /\ res[Caller].key = k
  /\ res[Caller].err = ErrNone

\* a Release(k, i) call of the caller returns on this step
ReleaseReturns(k, i) ==
  /\ pc[Caller] = "defer" /\ pc'[Caller] = "ret"
  /\ loc[Caller].sub = "Release" /\ op[Caller].key = k /\ loc[Caller].index = i

\* C11: after indices 0..N-1 of a freshly primed topic were acquired and
\* each was released, in any order, Current returns (N-1, true); when they
\* are released in increasing order, Current returns (i, true) right after
\* Release(topic, i): the current index is i when that Release returns, and
\* Current returns the current index.
C11_ReleaseAdvancesCurrent ==
  /\ [](\A k \in OneKey :
         CurrentReturned(k) =>
           /\ res[Caller].exists = (CurOf(k) # NilIdx)
           /\ res[Caller].index = (IF CurOf(k) = NilIdx THEN 0 ELSE CurOf(k))
           /\ (released[k] = HandedOut(k) /\ released[k] # {}) =>
                /\ res[Caller].index = Cardinality(HandedOut(k)) - 1
                /\ res[Caller].exists)
  /\ [][\A k \in OneKey, i \in 0..MaxRelease :
         (/\ ReleaseReturns(k, i)
          /\ i \in HandedOut(k)
          /\ \A j \in released[k] : j # NilIdx /\ j < i)
           => CurOf(k)' = i]_vars

\* Current returned (1, true) after indices 0 and 1 were acquired and both
\* released
C11_Witness ==
  /\ CurrentReturned(1)
  /\ HandedOut(1) = {0, 1} /\ released[1] = {0, 1}
  /\ res[Caller].index = 1 /\ res[Caller].exists

(***************************************************************************)
(* Properties of postage.CurrentBatchID.                                   *)
(***************************************************************************)
\* the caller's last call was a CurrentBatchID and has returned
BatchReturned(p) == res[p].kind = "CurrentBatchID"

\* no request to the node has failed
NoFault == faultsLeft = MaxFaults

\* the BuyStamp calls that reached the node
Bought == Cardinality(DOMAIN stamps)

\* C13: sequential CurrentBatchID calls on one postage cache, against a node
\* that lists no tickets and answers every request, make exactly one BuyStamp
\* call in total, and each of them returns the purchased ticket ID.
C13_OnePurchaseForSequentialCalls ==
  (BatchReturned(Caller) /\ listed = <<>> /\ NoFault) =>
    /\ Bought = 1
    /\ res[Caller].err = ErrNone
    /\ res[Caller].index \in DOMAIN stamps
    /\ batchID = res[Caller].index

\* the second of two calls has returned
C13_Witness ==
  /\ BatchReturned(Caller) /\ listed = <<>> /\ NoFault
  /\ opsLeft = MaxBatchOps - 2
  /\ Bought = 1 /\ res[Caller].index = 1

\* C14: if the node's ticket listing holds a ticket reported both existing
\* and usable, CurrentBatchID returns the first such ticket in listing order
\* and makes no BuyStamp call; tickets that are not usable or do not exist
\* are skipped.
C14_FirstUsableListedTicket ==
  \A i \in DOMAIN listed :
    (/\ BatchReturned(Caller) /\ NoFault
     /\ listed[i].Usable /\ listed[i].Exists
     /\ \A j \in 1..(i - 1) : ~(listed[j].Usable /\ listed[j].Exists)) =>
      /\ res[Caller].err = ErrNone
      /\ res[Caller].index = listed[i].BatchID
      /\ Bought = 0

\* the second listed ticket was returned, the first one being usable but
\* not existing
C14_Witness ==
  /\ BatchReturned(Caller) /\ NoFault /\ Bought = 0
  /\ Len(listed) = 2
  /\ listed[1].Usable /\ ~listed[1].Exists
  /\ listed[2].Usable /\ listed[2].Exists
  /\ listed[2].BatchID # listed[1].BatchID
  /\ res[Caller].index = listed[2].BatchID

\* C15: if the Stamps request fails, CurrentBatchID returns that error and
\* attempts no purchase: the step on which the listing fails ends the call
\* with the error, and the call goes on to BuyStamp only from a listing that
\* succeeded.
C15_ListingErrorReturned ==
  [][\A t \in Threads :
       (pc[t] = "pb_stamps" /\ faultsLeft' < faultsLeft) =>
         /\ pc'[t] = loc[t].ret
         /\ loc'[t].err # ErrNone]_vars

\* C16: a CurrentBatchID call that fails returns the error with an empty
\* ticket ID and leaves the cache empty, and a call that finds the cache
\* empty goes on to discovery (and purchase) instead of returning a cached
\* value.
C16_FailureIsNotCached ==
  /\ []((BatchReturned(Caller) /\ res[Caller].err # ErrNone) =>
          (res[Caller].index = NoBatch /\ batchID = NoBatch))
  /\ [][(pc[Caller] = "pb_read" /\ batchID = NoBatch /\ pc'[Caller] # "pb_read")
          => pc'[Caller] = "pb_stamps"]_vars

\* the second call is at its discovery after the purchase of the first failed
C16_Witness ==
  /\ pc[Caller] = "pb_stamps"
  /\ opsLeft = MaxBatchOps - 2
  /\ faultsLeft < MaxFaults /\ Bought = 0 /\ batchID = NoBatch

\* C17: once a postage cache holds a ticket ID, the cached ID never changes,
\* also when several first-time CurrentBatchID calls run concurrently.
C17_CachedTicketNeverChanges ==
  [][batchID # NoBatch => batchID' = batchID]_vars

(***************************************************************************)
(* Properties of Put (Spec).                                               *)
(***************************************************************************)
\* the caller's Put or Delete is about to return
PutReturns(p) == IsWrite(op[p].kind) /\ pc[p] = "ret"

\* C21: every Put that obtained an index from AcquireNext has called
\* Release(topic, index) for that index exactly once when it returns, on the
\* success path and on every error path after the acquisition; a Put that
\* fails before it acquired an index has called Release zero times.
C21_ReleaseExactlyOnce ==
  \A p \in Procs :
    /\ IsWrite(op[p].kind) => (loc[p].rel <= 1 /\ (loc[p].rel = 1 => loc[p].got))
    /\ PutReturns(p) =>
         /\ loc[p].rel = (IF loc[p].got THEN 1 ELSE 0)
         /\ loc[p].got => loc[p].index \in released[op[p].key]
         /\ ~loc[p].got => loc[p].err # ErrNone

\* a Put returns the error of its update publish, its index released
C21_Witness ==
  /\ PutReturns(Caller) /\ op[Caller].kind = "Put"
  /\ loc[Caller].got /\ loc[Caller].rel = 1
  /\ loc[Caller].err = ErrTransport
  /\ loc[Caller].index \in released[op[Caller].key]

\* the payload of the update stored for index i of a topic, time stripped
UpdateRef(dat, topic, i) ==
  PayloadStripTime(RawDataFromSOCResp(
    Download(dat, FeedUpdateReference(Owner, topic, i)).bytes))

\* C22: in every Put of a non-deletion value the feed update is published
\* only after the blob upload has completed successfully (the goroutine is
\* done and the blob is stored at the node) and it embeds the reference that
\* upload returned; if the blob upload, or the ticket resolution inside it,
\* fails, Put takes over that error, returns it and publishes no update.
C22_PublishAfterBlobUpload ==
  [][\A p \in Procs :
       /\ (published' # published /\ pc[p] = "put_soc" /\ ~op[p].nil) =>
            /\ pc[Go(p)] = "idle"
            /\ loc[p].bytes = newCacAddress(Raw(op[p].val))
            /\ Download(data, loc[p].bytes) =
                 [err |-> ErrNone, bytes |-> Raw(op[p].val)]
            /\ UpdateRef(data', loc[p].topic, loc[p].index) = loc[p].bytes
       /\ published' # published => pc[Caller] = "put_soc"
       /\ (pc[Go(p)] = "g_upload" /\ pc'[Go(p)] = "idle" /\ loc[Go(p)].err # ErrNone) =>
            (respC'[p].err = loc[Go(p)].err /\ data' = data)
       /\ (pc[p] = "put_acquired" /\ Moves(p) /\ loc[p].err = ErrNone
              /\ respC[p].err # ErrNone) =>
            (loc'[p].err = respC[p].err /\ pc'[p] # "put_soc")
       /\ (IsWrite(op[p].kind) /\ loc[p].sub = "Release" /\ loc[p].err # ErrNone) =>
            /\ published' = published /\ feeds' = feeds
            /\ pc'[p] # "idle" => loc'[p].err = loc[p].err
            /\ pc'[p] = "idle" => res'[p].err = loc[p].err]_vars

\* a Put of a value has published its update and has its Release left to do
C22_Witness ==
  /\ op[Caller].kind = "Put" /\ ~op[Caller].nil
  /\ pc[Caller] = "lock" /\ loc[Caller].sub = "Release"
  /\ loc[Caller].err = ErrNone
  /\ Count(published, <<op[Caller].key, loc[Caller].index>>) > 0
  /\ UpdateRef(data, loc[Caller].topic, loc[Caller].index) =
       newCacAddress(Raw(op[Caller].val))
  /\ Has_(data, newCacAddress(Raw(op[Caller].val)))

\* C23: a Delete makes no blob upload (no upload goroutine runs, and the only
\* chunk it stores at the node is its feed update); it publishes one update,
\* whose embedded reference is the all-zero reference, and a Delete that
\* succeeds has acquired one index and released it once.
C23_DeleteUploadsNoBlob ==
  [][\A p \in Procs :
       (op[p].kind = "Delete" /\ pc[p] # "idle") =>
         /\ pc[Go(p)] = "idle" /\ pc'[Go(p)] = "idle"
         /\ (data' # data \/ published' # published) =>
              /\ pc[p] = "put_soc" /\ loc'[p].sub = "Release"
              /\ DOMAIN data' \ DOMAIN data \subseteq
                   {FeedUpdateReference(Owner, loc[p].topic, loc[p].index)}
              /\ UpdateRef(data', loc[p].topic, loc[p].index) = zeroSocData
              /\ published' = BagAdd(published, <<op[p].key, loc[p].index>>)
         /\ loc[p].sub = "Release" => pc'[p] # "put_soc"
         /\ (pc'[p] = "ret" /\ loc'[p].err = ErrNone) =>
              /\ loc'[p].got /\ loc'[p].rel = 1
              /\ loc'[p].index \in released'[op[p].key]
              /\ UpdateRef(data', loc[p].topic, loc'[p].index) = zeroSocData]_vars

\* a Delete is about to return success
C23_Witness ==
  /\ op[Caller].kind = "Delete" /\ pc[Caller] = "ret"
  /\ loc[Caller].err = ErrNone /\ loc[Caller].rel = 1
  /\ UpdateRef(data, loc[Caller].topic, loc[Caller].index) = zeroSocData
  /\ Count(published, <<op[Caller].key, loc[Caller].index>>) = 1

\* C24: an update uploaded with UploadSoc under the owner and the id
\* FeedID(topic, i) is what DownloadChunk returns at the locally computed
\* address FeedUpdateReference(owner, topic, i), and the downloaded chunk
\* without its SOC header is exactly the payload that was signed; the updates
\* at distinct indices of a topic are stored at distinct addresses.
C24_UpdateResolvesAtReference ==
  /\ (last.call = "UploadSoc" /\ last.err = ErrNone) =>
       LET r == Download(data, FeedUpdateReference(Owner, makeTopic(last.key),
                                                   last.index))
       IN r.err = ErrNone /\ RawDataFromSOCResp(r.bytes) = last.bytes
  /\ (last.call = "DownloadChunk"
        /\ Has_(feeds, feedID(Owner, FeedID(makeTopic(last.key), last.index)))) =>
       /\ last.err = ErrNone
       /\ \E v \in Values :
            RawDataFromSOCResp(last.out) = PayloadWithTime(Raw(v), 0)
  /\ \A k \in Keys, i \in FeedIndices :
       /\ Has_(feeds, feedID(Owner, FeedID(makeTopic(k), i))) =>
            feeds[feedID(Owner, FeedID(makeTopic(k), i))] =
              FeedUpdateReference(Owner, makeTopic(k), i)
       /\ \A j \in FeedIndices :
            i # j => FeedUpdateReference(Owner, makeTopic(k), i) #
                       FeedUpdateReference(Owner, makeTopic(k), j)

\* an update with a non-empty payload was uploaded and then downloaded at its
\* reference, while the topic holds updates at two indices
C24_Witness ==
  /\ last.call = "DownloadChunk" /\ last.err = ErrNone
  /\ RawDataFromSOCResp(last.out) = PayloadWithTime(Raw(<<7>>), 0)
  /\ \A i \in 0..1 : Has_(data, FeedUpdateReference(Owner, makeTopic(last.key), i))

\* the indices of FeedIndices at which the node holds an update of the topic
\* of key k
UpdatedAt(k) ==
  {i \in FeedIndices : Has_(feeds, feedID(Owner, FeedID(makeTopic(k), i)))}

\* C25: FeedIndexLatest for an (owner, topic) that has no feed update yet
\* returns an error together with an empty response.
C25_NoUpdateIsAnError ==
  (last.call = "FeedIndexLatest" /\ UpdatedAt(last.key) = {}) =>
    (last.err # ErrNone /\ last.resp = NoResp)

\* C26: once feed updates have been uploaded for an (owner, topic) at the
\* consecutive indices 0..k-1 (k >= 1), FeedIndexLatest returns without error
\* Current = k-1 and Next = k.
C26_LatestAfterConsecutiveUpdates ==
  \A k \in 1..(MaxFeedIndex + 1) :
    (last.call = "FeedIndexLatest" /\ UpdatedAt(last.key) = 0..(k - 1)) =>
      (last.err = ErrNone /\ last.resp = [Current |-> k - 1, Next |-> k])

\* FeedIndexLatest has answered for a topic with updates at indices 0 and 1
C26_Witness ==
  /\ last.call = "FeedIndexLatest" /\ UpdatedAt(last.key) = 0..1
  /\ last.resp = [Current |-> 1, Next |-> 2]

\* C27: BuyStamp fails and returns an empty response, creating no ticket at
\* the node, whenever amount <= 0 or the depth is outside the accepted range
\* (below bucketDepth + 1 = 17); with a positive amount and a depth in range
\* it returns a non-empty ticket id that uploads then accept (a one-chunk
\* upload with the ticket just bought succeeds).
C27_BoughtTicketAcceptedByUploads ==
  last.call = "BuyStamp" =>
    IF last.amount <= 0 \/ last.depth < bucketDepth + 1 \/ last.depth > maxDepth
    THEN last.err # ErrNone /\ last.batch = NoBatch /\ ~last.made
    ELSE /\ last.err = ErrNone /\ last.batch # NoBatch
         /\ Has_(stamps, last.batch)
         /\ upload(stamps, data, newCacAddress(Raw(<<7>>)), Raw(<<7>>),
                   last.batch).err = ErrNone

\* C28: for every byte string d, the empty one included, an Upload(d) with a
\* valid ticket followed by a Download of the returned reference yields
\* exactly d; a Download of an address at which nothing was uploaded fails
\* with not-found and returns no reader; an Upload with a ticket id unknown
\* to the node fails and stores nothing.
C28_UploadDownloadRoundTrip ==
  /\ (last.call = "Upload" /\ last.err = ErrNone) =>
       /\ Has_(stamps, last.batch)
       /\ Download(data, last.addr) = [err |-> ErrNone, bytes |-> last.bytes]
  /\ (last.call = "Upload" /\ ~Has_(stamps, last.batch)) =>
       (last.err = errInvalidStamp /\ last.addr = <<>> /\ ~last.made)
  /\ (last.call = "Upload" /\ last.err # ErrNone) => ~last.made
  /\ \A v \in Values :
       Has_(data, newCacAddress(Raw(v))) => data[newCacAddress(Raw(v))] = Raw(v)
  /\ last.call = "Download" =>
       IF Has_(data, last.addr)
       THEN last.err = ErrNone /\ last.out = last.bytes
       ELSE last.err = ErrNotFound /\ last.out = <<>>

\* the empty byte string was uploaded and downloaded again, next to a
\* non-empty one
C28_Witness ==
  /\ last.call = "Download" /\ last.err = ErrNone
  /\ last.bytes = Raw(<<>>) /\ last.out = Raw(<<>>)
  /\ Has_(data, newCacAddress(Raw(<<7>>)))

\* what the node reports for the topic of key k
NodeReport(k) == FeedIndexLatest(feeds, Owner, makeTopic(k))

\* the caller's last call was an AcquireNext of key k that returned an index,
\* the first index handed out
FirstAcquireReturned(k) ==
  /\ res[Caller].kind = "AcquireNext" /\ res[Caller].key = k
  /\ res[Caller].err = ErrNone
  /\ DOMAIN acquired = {<<k, res[Caller].index>>}
  /\ Count(acquired, <<k, res[Caller].index>>) = 1

\* C29: when an unseen topic is primed from a node that reports an existing
\* feed (Current = c, Next = n with n > 0), Current(topic) returns (c, true)
\* before any local Release and the first AcquireNext returns n; only the
\* response Current = 0 and Next = 0 is treated as nothing written (current
\* unset, next 0).
C29_PrimedFromNodeReport ==
  \A k \in OneKey :
    LET r == NodeReport(k)
        nothing == r.Current = 0 /\ r.Next = 0
    IN /\ (CurrentReturned(k) /\ res[Caller].err = ErrNone /\ released[k] = {}) =>
            IF nothing
            THEN res[Caller].index = 0 /\ ~res[Caller].exists
            ELSE res[Caller].index = r.Current /\ res[Caller].exists
       /\ FirstAcquireReturned(k) =>
            res[Caller].index = (IF nothing THEN 0 ELSE r.Next)
       /\ (Has_(indexMap, makeTopic(k)) /\ released[k] = {}
             /\ op[Caller].kind # "Release") =>
            (CurOf(k) = NilIdx) = nothing

\* over a feed with two updates, the first AcquireNext handed out 2 and then
\* Current returned (1, true), no Release made
C29_Witness ==
  /\ NodeReport(1) = [Current |-> 1, Next |-> 2]
  /\ CurrentReturned(1) /\ res[Caller].err = ErrNone
  /\ res[Caller].index = 1 /\ res[Caller].exists
  /\ DOMAIN acquired = {<<1, 2>>} /\ released[1] = {}

\* C30: if FeedIndexLatest fails while an unseen topic is being primed,
\* AcquireNext (resp. Current) returns the wrapped error, installs no entry
\* for the topic and hands out no index, and the indexer stays usable: the
\* program runs on after the failed query, so that a later AcquireNext or
\* Current can run and query the node again for the still unseen topic.
C30_FailedPrimingKeepsIndexerUsable ==
  /\ faultsLeft < MaxFaults => crashed = ""
  /\ \A t \in Procs :
       (loc[t].sub \in {"AcquireNext", "Current"} /\ loc[t].err = ErrFeedIndex) =>
         /\ ~Has_(indexMap, loc[t].topic)
         /\ ~loc[t].got
         /\ pc[t] \in {"defer", "ret"}
  /\ \A t \in Procs :
       (res[t].kind \in {"AcquireNext", "Current"} /\ res[t].err # ErrNone) =>
         (res[t].err = ErrFeedIndex /\ res[t].index = 0 /\ ~res[t].exists)

\* C31: the indexer mutex is balanced on every path of AcquireNext, Current
\* and Release: it is never unlocked while not held (a call that is about to
\* unlock holds it, and the program never ends on an unlock of the unlocked
\* mutex), and it is free when the operation returns, including the priming
\* slow path and the return taken when the node query fails.
C31_MutexBalanced ==
  /\ crashed # FatalUnlock
  /\ (pc[Caller] \in {"unlock1", "defer"}
        /\ loc[Caller].sub \in {"AcquireNext", "Current", "Release"}) => lock
  /\ pc[Caller] \in {"ret", "idle"} => ~lock

(***************************************************************************)
(* Properties of concurrent Puts.                                          *)
(***************************************************************************)
\* C32: with two concurrent Puts on one key holding indices i < j, the state
\* in which index j has been released and current = j while index i is still
\* in flight is reachable, and the later Release(topic, i) leaves current = j:
\* a Release whose index is below the current index at its comparison writes
\* nothing, and no other step of a Release changes current.  AcquireNext
\* never waits for an outstanding index: it hands out the entry's next index
\* whatever has been released.
C32_LateReleaseKeepsCurrent ==
  [][\A p \in Procs, k \in Keys :
          /\ (IsWrite(op[p].kind) /\ op[p].key = k /\ loc[p].sub = "Release"
                /\ pc'[p] # pc[p]) =>
               /\ (pc[p] = "cmp" /\ CurOf(k) # NilIdx /\ loc[p].index < CurOf(k)) =>
                    (pc'[p] = "defer" /\ CurOf(k)' = CurOf(k))
               /\ pc[p] # "set" => CurOf(k)' = CurOf(k)
          /\ (IsWrite(op[p].kind) /\ loc[p].sub = "AcquireNext"
                /\ pc[p] = "take" /\ pc'[p] = "incr") =>
               loc'[p].index = entries[loc[p].idata].next]_vars

\* index 1 was released and is current, and the Put holding index 0 has then
\* run its Release up to the deferred Unlock, current still being 1
C32_Witness ==
  \E p \in Procs :
    /\ op[p].kind = "Put" /\ loc[p].sub = "Release" /\ pc[p] = "defer"
    /\ loc[p].index = 0 /\ loc[p].err = ErrNone
    /\ Count(acquired, <<1, 0>>) = 1 /\ Count(acquired, <<1, 1>>) = 1
    /\ released[1] = {1} /\ CurOf(1) = 1

\* no call is running on the orchestrator
Quiet == Running /\ \A t \in Threads : pc[t] = "idle"

\* what a Get reads when the current index is cur: the update at that index,
\* its reference, and the bytes behind it
ReadAt(k, cur) ==
  LET chunk == Download(data, FeedUpdateReference(Owner, makeTopic(k), cur))
      ref == PayloadStripTime(RawDataFromSOCResp(chunk.bytes))
  IN IF chunk.err # ErrNone THEN [err |-> chunk.err, bytes |-> <<>>]
     ELSE IF ref = zeroSocData THEN [err |-> errBzzDBNotFound, bytes |-> <<>>]
     ELSE Download(data, ref)

\* the highest index handed out for key k
HighestIndex(k) ==
  CHOOSE i \in HandedOut(k) : \A j \in HandedOut(k) : j <= i

\* C33: after any interleaving of concurrent Puts to one key on one
\* orchestrator, once all of them have returned successfully and no write is
\* in flight, Get(key) returns the value written by the Put that was
\* allocated the highest sequence index (what the update published at that
\* index refers to).
C33_GetReturnsHighestIndex ==
  \A k \in OneKey :
    (Quiet /\ lastWrite[k].set /\ ~lastWrite[k].failed) =>
      /\ HandedOut(k) # {}
      /\ GetNow(k) = ReadAt(k, HighestIndex(k))

\* two Puts of different values have returned, holding the indices 0 and 1,
\* and a Get now returns the value published at index 1
C33_Witness ==
  /\ Quiet /\ lastWrite[1].set /\ ~lastWrite[1].failed
  /\ HandedOut(1) = {0, 1} /\ released[1] = {0, 1}
  /\ \A p \in Procs : res[p].kind = "Put" /\ res[p].err = ErrNone
  /\ GetNow(1).err = ErrNone /\ ReadAt(1, 0).err = ErrNone
  /\ GetNow(1) = ReadAt(1, 1) /\ GetNow(1) # ReadAt(1, 0)

\* C34: a single Put of a non-deletion value on a fresh orchestrator, against
\* a node with no usable ticket, resolves the ticket concurrently from the
\* upload goroutine and from the Put body; it triggers at most one ticket
\* purchase, and the blob upload and the feed-update publish of that Put use
\* the same ticket id (the goroutine and the body hold the same id, and the
\* ticket of the publish has paid for the blob too).
C34_OnePurchaseOneTicket ==
  (epoch = 1 /\ opsLeft = MaxOps - 1 /\ op[Caller].kind = "Put" /\ ~op[Caller].nil) =>
    /\ Bought <= 1
    /\ (pc[Go(Caller)] = "g_upload" /\ loc[Go(Caller)].err = ErrNone
          /\ loc[Caller].batch # NoBatch /\ loc[Caller].err = ErrNone) =>
         loc[Go(Caller)].batch = loc[Caller].batch
    /\ (pc[Caller] = "ret" /\ loc[Caller].err = ErrNone) =>
         stamps[loc[Caller].batch].usage =
           RequiredChunks(ByteLen(Raw(op[Caller].val))) + 1

\* C35: a ticket bought through BuyStamp on the mock node is afterwards
\* discovered by a fresh postage cache over the same node: Stamps lists it as
\* existing and usable, so CurrentBatchID on the new cache returns it and
\* buys no second ticket.
C35_BoughtTicketIsDiscovered ==
  /\ (\E t \in Procs : pc[t] = "pb_stamps") =>
       \A b \in DOMAIN stamps :
         Stamps(stamps)[b].Usable /\ Stamps(stamps)[b].Exists
  /\ NoFault =>
       /\ DOMAIN stamps = DOMAIN WarmNode.stamps
       /\ \A p \in Procs :
            (BatchReturned(p) /\ res[p].err = ErrNone) =>
              res[p].index \in DOMAIN WarmNode.stamps

\* the feed of key k has a gap: an index was handed out and nothing was
\* published at it, and a later index was published
HasGap(k) ==
  \E i, j \in HandedOut(k) :
    /\ i < j
    /\ Count(published, <<k, i>>) = 0
    /\ Count(published, <<k, j>>) > 0

\* what Get returns for the last successful write of key k
LastOkValue(k) ==
  IF lastOk[k].nil
  THEN [err |-> errBzzDBNotFound, bytes |-> <<>>]
  ELSE [err |-> ErrNone, bytes |-> Raw(lastOk[k].val)]

\* a fresh orchestrator, no call made on it yet, over the node an earlier one
\* wrote key k to, the last write of the key having succeeded
FreshOver(k) ==
  /\ Quiet
  /\ ~Has_(indexMap, makeTopic(k))
  /\ lastOk[k].set /\ lastWrite[k].ok
  /\ epoch > lastOk[k].epoch

\* C36: after an orchestrator has left a gap in a key's feed (an index was
\* allocated and its publish failed, and a later index was published
\* successfully), a fresh orchestrator for the same owner and node, priming
\* its index state from the node, returns from Get(key) the value of the last
\* successful Put; the skipped index is harmless.
C36_GapIsHarmless ==
  \A k \in OneKey :
    (FreshOver(k) /\ HasGap(k)) => GetNow(k) = LastOkValue(k)

(***************************************************************************)
(* Properties of the mock node's ticket accounting                         *)
(***************************************************************************)
\* ceil(size / 4096): the least number of chunks that hold size bytes
ChunksOf(size) ==
  CHOOSE c \in 0..(size \div chunkSize + 1) :
    c * chunkSize >= size /\ (c = 0 \/ (c - 1) * chunkSize < size)

\* n chunks are more than 2^(depth - 16); a capacity of 2^31 chunks and more
\* is above every count of chunks the model reaches
AboveCapacity(n, depth) ==
  depth - bucketDepth <= 30 /\ n > 2^(depth - bucketDepth)

\* the bytes the upload of the last call charges to its ticket: the data of
\* an Upload, the chunk data made of the payload of an UploadSoc
Charged(l) == IF l.call = "UploadSoc" THEN makeSOCData(l.bytes) ELSE l.bytes

\* C37: in every reachable state a ticket's usage is at most its capacity of
\* 2^(depth-16) chunks; an upload of s bytes adds ceil(s/4096) chunks to the
\* usage of its ticket (none for an empty upload), and an upload that would
\* exceed the capacity fails with usage-exceeded and leaves the tickets, the
\* stored data and the feed entries as they were.
C37_UsageWithinCapacity ==
  [][/\ \A b \in DOMAIN stamps' :
          stamps'[b].usage >= 0 /\ ~AboveCapacity(stamps'[b].usage, stamps'[b].depth)
     /\ \A b \in DOMAIN stamps :
          (last'.call \in {"Upload", "UploadSoc"} /\ last'.batch = b) =>
            LET n == stamps[b].usage + ChunksOf(ByteLen(Charged(last')))
            IN IF AboveCapacity(n, stamps[b].depth)
               THEN /\ last'.err = errStampUsageExceeded
                    /\ stamps' = stamps /\ data' = data /\ feeds' = feeds
               ELSE last'.err = ErrNone =>
                      /\ stamps' = [stamps EXCEPT ![b].usage = n]
                      /\ DOMAIN stamps' = DOMAIN stamps]_vars

\* an upload of one byte was refused, and changed nothing, on a ticket of
\* depth 17 that an upload of 4097 bytes had filled with its two chunks
C37_Witness ==
  /\ last.call = "Upload" /\ last.err = errStampUsageExceeded
  /\ last.bytes = Raw(<<7>>) /\ ~last.made
  /\ Has_(stamps, last.batch)
  /\ stamps[last.batch].depth = minDepth /\ stamps[last.batch].usage = 2
  /\ Has_(data, newCacAddress(Zeros(chunkSize + 1)))
  /\ ~Has_(data, newCacAddress(Raw(<<7>>)))

\* C38: for every depth BuyStamp accepts (17..255) the capacity incUsage
\* computes as the machine integer 1 << (depth-16) is 2^(depth-16): it is at
\* least 2 chunks, a ticket of greater depth never has less capacity than one
\* of smaller depth, and a one-chunk upload to an unused ticket succeeds.
C38_CapacityGrowsWithDepth ==
  \A b \in DOMAIN stamps :
    /\ MaxChunks(stamps[b].depth) >= 2
    /\ \A c \in DOMAIN stamps :
         stamps[c].depth <= stamps[b].depth =>
           MaxChunks(stamps[c].depth) <= MaxChunks(stamps[b].depth)
    /\ stamps[b].usage = 0 => incUsage(stamps[b], 1) = 1

(***************************************************************************)
(* Properties of the mock node's lock                                      *)
(***************************************************************************)
\* the goroutines reading, resp. writing, the stamps map of the mock node
StampsReaders == {t \in Threads : pc[t] = "ms_range"}
StampsWriters == {t \in Threads : pc[t] = "mb_write"}

\* C39: every read and write of the mock node's shared maps happens while
\* mockClient.lock is held, so under concurrent callers no operation, Stamps
\* in particular, reads the stamps map while BuyStamp is writing it.
C39_MapsGuardedByLock ==
  /\ Cardinality(MockLockHolders) <= 1
  /\ StampsWriters \subseteq MockLockHolders
  /\ StampsReaders \subseteq MockLockHolders
  /\ StampsWriters # {} => StampsReaders = {}
  /\ crashed # FatalMapRace

====
